---- MODULE Spec2Model ----
(***************************************************************************)
(* A model of the heterogeneous video knowledge graph of HiViM-web:        *)
(* classes/hetero_graph.py (HeteroGraph), classes/edge_class.py (Edge),    *)
(* utils/llm.py (get_embedding).                                           *)
(*                                                                         *)
(* Encoding of Python values                                               *)
(*   a node-name string is a pair <<base, depth>>: base is the text        *)
(*   without angle brackets, depth the number of enclosing bracket pairs:  *)
(*   "coffee" = <<"coffee", 0>>, "<Alice>" = <<"Alice", 1>>,               *)
(*   "<<Alice>>" = <<"Alice", 2>>.                                         *)
(*   Python None is NoneName / NoneStr / NoneNum / NoneEmb, one per type.  *)
(*   An embedding vector of text t is <<"vec", t>>.                        *)
(*   A dict whose order matters (characters) is a sequence of its keys in  *)
(*   insertion order; edges is a function from edge id to record (ids are  *)
(*   inserted in increasing order).  A defaultdict(list) is a function     *)
(*   whose DOMAIN is the set of keys present.                              *)
(***************************************************************************)
EXTENDS Integers, Sequences, FiniteSets, TLC

VARIABLES
    characters,            \* HeteroGraph.characters: keys in insertion order
    objects,               \* HeteroGraph.objects: set of keys
    edges,                 \* HeteroGraph.edges: id -> Edge
    adjacency_list_out,    \* HeteroGraph.adjacency_list_out
    adjacency_list_in,     \* HeteroGraph.adjacency_list_in
    id_counter,            \* Edge._id_counter
    character_appearance,  \* the caller's appearance dict (name -> text)
    conversations,         \* HeteroGraph.conversations: id -> Conversation
    current_conversation_id, \* HeteroGraph.current_conversation_id
    conversation_id_counter, \* Conversation._id_counter
    embedding_requests,    \* history: the texts the embedding provider was called with, in order
    driver,                \* process_full_video: its position and its local variables
    token_usage,           \* data/results/token_usage.json, its lock and the runs of reason()
    asserted,              \* history: edge id -> highest confidence passed to add_high_level_edge for it
    last,                  \* history: the operation that produced this state
    ops                    \* history: number of operations performed

\* the conversation store
conversationVars == <<conversations, current_conversation_id, conversation_id_counter>>

\* the node and edge stores, with the caller's appearance dict
graphVars == <<characters, objects, edges, adjacency_list_out, adjacency_list_in,
               id_counter, character_appearance, asserted>>

vars == <<graphVars, conversationVars, embedding_requests, driver, token_usage, last, ops>>

----------------------------------------------------------------------------
\* Bounds of the model

\* operations per run of the whole API
MaxOps == 3
\* operations per run of the ingestion operations
MaxIngestOps == 4
\* insert_triples calls per run when batches are studied
MaxBatchCalls == 2
\* longest triple list passed to insert_triples when batches are studied
MaxBatch == 2
\* update_conversation calls per run
MaxConversationOps == 3
\* operations per run of ingestion followed by the synthesizer
MaxSynthesisOps == 3
\* calls per run when the requests to the embedding provider are recorded
MaxEmbeddingOps == 2
\* insert_triples calls per run before the connectivity query
MaxConnectivityInserts == 3
\* mutations per run before a search
MaxSearchOps == 3

----------------------------------------------------------------------------
\* Python values

NoneName == <<"None", -1>>
NoneStr == "None"
NoneNum == -1
NoneEmb == <<"None", "None">>

\* s.startswith("<") and s.endswith(">")
HasBrackets(name) == name[2] >= 1

\* f"<{name}>"
Wrap(name) == <<name[1], name[2] + 1>>

\* name.strip("<>")
StripBrackets(name) == <<name[1], 0>>

\* if not name.startswith("<") or not name.endswith(">"): name = f"<{name}>"
EnsureBrackets(name) == IF HasBrackets(name) THEN name ELSE Wrap(name)

\* bases of the form character_N with N a number
NumberedBases == {"character_1", "character_2"}

\* re.match(r'^<character_\d+>$', old_name)
MatchesCharacterPattern(name) == name[2] = 1 /\ name[1] \in NumberedBases

\* existing_char_name.startswith("<character_")
StartsWithCharacterPrefix(name) ==
    name[2] = 1 /\ name[1] \in NumberedBases \cup {"character_x"}

ROBOT == <<"robot", 1>>

SeqToSet(s) == {s[i] : i \in 1..Len(s)}

\* a local variable: the rest of the method, F, run with the value v bound
With(v, F(_)) == F(v)

\* d.get(k, []) on a dict of lists
GetList(d, k) == IF k \in DOMAIN d THEN d[k] ELSE <<>>

\* d[k] = v
DictSet(d, k, v) == (k :> v) @@ d

\* d.pop(k) / del d[k]
DictDel(d, k) == [x \in (DOMAIN d) \ {k} |-> d[x]]

\* the dict without the del
SeqKeep(s, k) == s

\* del d[k] on the ordered dict
SeqRemove(s, k) == SelectSeq(s, LAMBDA x : x # k)

----------------------------------------------------------------------------
\* The graph as one value: g.characters, g.objects, g.edges, g.out, g.in

Graph == [characters |-> characters, objects |-> objects, edges |-> edges,
          out |-> adjacency_list_out, in |-> adjacency_list_in]

\* HeteroGraph.__init__
NewGraph == [characters |-> <<ROBOT>>, objects |-> {}, edges |-> <<>>,
             out |-> <<>>, in |-> <<>>]

CharSet(g) == SeqToSet(g.characters)

\* HeteroGraph.add_character: returns the graph; the name used is EnsureBrackets(name)
add_character(g, name) ==
    LET n == EnsureBrackets(name) IN
    IF n \in CharSet(g) THEN g
    ELSE [g EXCEPT !.characters = Append(@, n)]

\* HeteroGraph._get_or_create_object_node
get_or_create_object_node(g, name) ==
    IF name \in g.objects THEN g
    ELSE [g EXCEPT !.objects = @ \cup {name}]

\* an Edge whose id is always the first one
EdgeFirstId(counter, clip_id, source, target, content, scene, confidence, scene_embedding) ==
    [id |-> 1, clip_id |-> clip_id, source |-> source, target |-> target,
     content |-> content, scene |-> scene, confidence |-> confidence,
     embedding |-> NoneEmb, scene_embedding |-> scene_embedding]

\* Edge.__init__: the id is Edge.next_id() of the class counter `counter`
Edge(counter, clip_id, source, target, content, scene, confidence, scene_embedding) ==
    [id |-> counter + 1, clip_id |-> clip_id, source |-> source, target |-> target,
     content |-> content, scene |-> scene, confidence |-> confidence,
     embedding |-> NoneEmb, scene_embedding |-> scene_embedding]

\* the endpoint checks of add_edge
SourceExists(g, e) ==
    IF HasBrackets(e.source) THEN e.source \in CharSet(g) ELSE e.source \in g.objects

\* add_edge without the target check
TargetExistsUnchecked(g, e) == TRUE

TargetExists(g, e) ==
    IF e.target = NoneName THEN TRUE
    ELSE IF HasBrackets(e.target) THEN e.target \in CharSet(g)
    ELSE e.target \in g.objects

\* the part of add_edge after its checks: store and index the edge
StoreEdge(g, e) ==
    [g EXCEPT !.edges = DictSet(@, e.id, e),
              !.out = DictSet(@, e.source, Append(GetList(@, e.source), e.id)),
              !.in = DictSet(@, e.target, Append(GetList(@, e.target), e.id))]

\* HeteroGraph.add_edge: ok = FALSE is the ValueError
add_edge(g, e) ==
    IF ~SourceExists(g, e) \/ ~TargetExists(g, e)
    THEN [g |-> g, ok |-> FALSE]
    ELSE [g |-> StoreEdge(g, e), ok |-> TRUE]

\* step 3 rewriting the sources only
RenameEdgesSourceOnly(g, old_name, new_name_stored) ==
    [id \in DOMAIN g.edges |->
        [g.edges[id] EXCEPT !.source = IF @ = old_name THEN new_name_stored ELSE @]]

\* the edge rewrite of rename_character (step 3)
RenameEdges(g, old_name, new_name_stored) ==
    LET all_edge_ids == SeqToSet(GetList(g.out, old_name)) \cup SeqToSet(GetList(g.in, old_name))
    IN [id \in DOMAIN g.edges |->
          IF id \in all_edge_ids
          THEN [g.edges[id] EXCEPT
                  !.source = IF @ = old_name THEN new_name_stored ELSE @,
                  !.target = IF @ = old_name THEN new_name_stored ELSE @]
          ELSE g.edges[id]]

\* step 4 copying the list to the new key without the pop of the old one
MoveKeyCopy(adj, old_name, new_name_stored) ==
    IF old_name \in DOMAIN adj THEN DictSet(adj, new_name_stored, adj[old_name]) ELSE adj

\* the adjacency move of rename_character (step 4), for one of the two maps
MoveKey(adj, old_name, new_name_stored) ==
    IF old_name \in DOMAIN adj
    THEN DictSet(DictDel(adj, old_name), new_name_stored, adj[old_name])
    ELSE adj

\* the early returns without the collision check
RenameRejectedNoCollision(g, old_name, new_name_stored) ==
    old_name \notin CharSet(g) \/ ~MatchesCharacterPattern(old_name)

\* the early returns without the test of the <character_N> pattern
RenameRejectedNoPattern(g, old_name, new_name_stored) ==
    \/ old_name \notin CharSet(g)
    \/ (new_name_stored \in CharSet(g) /\ new_name_stored # old_name)

\* the three early returns of rename_character
RenameRejected(g, old_name, new_name_stored) ==
    \/ old_name \notin CharSet(g)
    \/ ~MatchesCharacterPattern(old_name)
    \/ (new_name_stored \in CharSet(g) /\ new_name_stored # old_name)

\* HeteroGraph.rename_character
rename_character(g, old_arg, new_arg) ==
    LET old_name == EnsureBrackets(old_arg)
        new_name_stored == Wrap(StripBrackets(new_arg))
    IN IF RenameRejected(g, old_name, new_name_stored)
       THEN [g |-> g, ok |-> FALSE]
       ELSE [g |-> [characters |-> Append(SeqRemove(g.characters, old_name), new_name_stored),
                    objects |-> g.objects,
                    edges |-> RenameEdges(g, old_name, new_name_stored),
                    out |-> MoveKey(g.out, old_name, new_name_stored),
                    in |-> MoveKey(g.in, old_name, new_name_stored)],
             ok |-> TRUE]

----------------------------------------------------------------------------
\* High-level edges

\* the scene test of _find_existing_high_level_edge inverted
HighLevelMatchesSceneSet(g, source, content, target, clip_id) ==
    {id \in DOMAIN g.edges :
        /\ g.edges[id].clip_id = clip_id
        /\ g.edges[id].scene # NoneStr
        /\ g.edges[id].content = content
        /\ g.edges[id].source = source
        /\ g.edges[id].target = target}

\* ids of the edges _find_existing_high_level_edge accepts
HighLevelMatches(g, source, content, target, clip_id) ==
    {id \in DOMAIN g.edges :
        /\ g.edges[id].clip_id = clip_id
        /\ g.edges[id].scene = NoneStr
        /\ g.edges[id].content = content
        /\ g.edges[id].source = source
        /\ g.edges[id].target = target}

MinOf(S) == CHOOSE x \in S : \A y \in S : x <= y

\* HeteroGraph._find_existing_high_level_edge: the id of the first match in
\* dict order (ids are inserted in increasing order), 0 for None
find_existing_high_level_edge(g, source, content, target, clip_id) ==
    LET m == HighLevelMatches(g, source, content, target, clip_id)
    IN IF m = {} THEN 0 ELSE MinOf(m)

\* the update taken for every new confidence that is not None
ConfidenceOverwrites(new_confidence, old_confidence) == new_confidence # NoneNum

\* new_confidence is not None and (old_confidence is None or new_confidence > old_confidence)
ConfidenceRaises(new_confidence, old_confidence) ==
    new_confidence # NoneNum /\ (old_confidence = NoneNum \/ new_confidence > old_confidence)

\* HeteroGraph.add_high_level_edge: ok = FALSE is add_edge's ValueError,
\* ret is the returned id, NoneNum for the skip
\* self.add_edge(edge); return edge.id
AddAndReturnId(g, e) ==
    With(add_edge(g, e),
         LAMBDA r : [g |-> r.g, ok |-> r.ok, ret |-> IF r.ok THEN e.id ELSE NoneNum])

\* the branch of add_high_level_edge taken when an equivalent edge exists
UpdateExisting(g, e, existing) ==
    IF ConfidenceRaises(e.confidence, g.edges[existing].confidence)
    THEN [g |-> [g EXCEPT !.edges[existing].confidence = e.confidence],
          ok |-> TRUE, ret |-> existing]
    ELSE [g |-> g, ok |-> TRUE, ret |-> NoneNum]

add_high_level_edge(g, e) ==
    IF e.clip_id # 0
    THEN AddAndReturnId(g, e)
    ELSE With(find_existing_high_level_edge(g, e.source, e.content, e.target, e.clip_id),
              LAMBDA existing : IF existing # 0 THEN UpdateExisting(g, e, existing)
                                ELSE AddAndReturnId(g, e))

\* history: the stored edge a call add_high_level_edge(e) is about (the match,
\* or e itself when it is added) paired with the confidence the call asserts
AssertedHit(g, e) ==
    IF e.clip_id # 0 THEN {}
    ELSE With(find_existing_high_level_edge(g, e.source, e.content, e.target, 0),
              LAMBDA existing :
                IF existing # 0 THEN {<<existing, e.confidence>>}
                ELSE IF add_edge(g, e).ok THEN {<<e.id, e.confidence>>}
                ELSE {})

MaxOf(S) == CHOOSE x \in S : \A y \in S : x >= y

\* history: asserted after the calls recorded in hits
RecordAsserted(old, hits) ==
    [id \in DOMAIN old \cup {h[1] : h \in hits} |->
        MaxOf((IF id \in DOMAIN old THEN {old[id]} ELSE {})
              \cup {h[2] : h \in {x \in hits : x[1] = id}})]

----------------------------------------------------------------------------
\* The embedding provider and appearance matching

\* utils.llm.get_embedding when the provider answers
Embedding(text) == <<"vec", text>>

\* appearance descriptions the multimodal model produces
AppearanceTexts == {"tall, dark hair", "tall, dark", "tall", "short"}

\* _cosine_similarity of the embeddings of two appearance texts, in percent
CosinePct(a, b) ==
    IF a = b THEN 100
    ELSE IF {a, b} = {"tall, dark hair", "tall"} THEN 90
    ELSE IF {a, b} = {"tall, dark", "tall"} THEN 85
    ELSE 20

\* similarity_threshold = 0.85, in percent
SimilarityThreshold == 85

\* the loop of _match_and_merge_character over self.characters from index i:
\* best is [name, sim]; `down` are the texts the provider fails on
RECURSIVE BestMatchFrom(_, _, _, _, _, _)
BestMatchFrom(chars, i, app, new_appearance, down, best) ==
    IF i > Len(chars) THEN best
    ELSE LET existing == chars[i]
             considered == /\ StartsWithCharacterPrefix(existing)
                           /\ existing # ROBOT
                           /\ existing \in DOMAIN app
                           /\ app[existing] \notin down
             sim == IF considered THEN CosinePct(new_appearance, app[existing]) ELSE 0
         IN IF considered /\ sim > best.sim /\ sim >= SimilarityThreshold
            THEN BestMatchFrom(chars, i + 1, app, new_appearance, down,
                               [name |-> existing, sim |-> sim])
            ELSE BestMatchFrom(chars, i + 1, app, new_appearance, down, best)

\* _match_and_merge_character without `del character_appearance[best_match]`
MergeKeepsEntry(g, app, char_name, down) ==
    IF DOMAIN app = {} \/ char_name \notin DOMAIN app \/ app[char_name] \in down
    THEN [g |-> g, app |-> app, matched |-> FALSE]
    ELSE With(BestMatchFrom(g.characters, 1, app, app[char_name], down,
                            [name |-> NoneName, sim |-> 0]).name,
              LAMBDA best_match :
                IF best_match = NoneName
                THEN [g |-> g, app |-> app, matched |-> FALSE]
                ELSE With(rename_character(g, StripBrackets(best_match), StripBrackets(char_name)),
                          LAMBDA r :
                            IF r.ok
                            THEN [g |-> r.g, app |-> app, matched |-> TRUE]
                            ELSE [g |-> g, app |-> app, matched |-> FALSE]))

\* HeteroGraph._match_and_merge_character: matched = FALSE is the None result
match_and_merge_character(g, app, char_name, down) ==
    IF DOMAIN app = {} \/ char_name \notin DOMAIN app \/ app[char_name] \in down
    THEN [g |-> g, app |-> app, matched |-> FALSE]
    ELSE With(BestMatchFrom(g.characters, 1, app, app[char_name], down,
                            [name |-> NoneName, sim |-> 0]).name,
              LAMBDA best_match :
                IF best_match = NoneName
                THEN [g |-> g, app |-> app, matched |-> FALSE]
                ELSE With(rename_character(g, StripBrackets(best_match), StripBrackets(char_name)),
                          LAMBDA r :
                            IF r.ok
                            THEN [g |-> r.g, app |-> DictDel(app, best_match), matched |-> TRUE]
                            ELSE [g |-> g, app |-> app, matched |-> FALSE]))

----------------------------------------------------------------------------
\* insert_triples
\*
\* A node string of a triple is <<base, depth, pad>>: the name <<base, depth>>
\* with surrounding whitespace when pad = 1.  A triple is
\* <<source_str, edge_content, target_str>>; Malformed is an entry that is not
\* a list of three.

NoneRaw == <<"None", -1, 0>>
Malformed == <<>>

\* the literal "null" / "Null" without padding
IsNullLiteral(raw) == raw[1] \in {"null", "Null"} /\ raw[2] = 0 /\ raw[3] = 0

\* HeteroGraph._parse_node_string on a non-None string: str(node_str).strip()
ParseName(raw) == <<raw[1], raw[2]>>
ParseIsChar(raw) == HasBrackets(ParseName(raw))

\* edge_content is None or (isinstance(edge_content, str) and not edge_content.strip())
ContentMissing(content) == content = NoneStr \/ content \in {"", " "}

\* the triples insert_triples skips before it resolves anything
SkippedEarly(triple) ==
    \/ Len(triple) < 3
    \/ triple[1] = NoneRaw
    \/ ContentMissing(triple[2])

\* source / target resolution of a character name: merge, or create
ResolveCharacter(g, app, name, down) ==
    IF name \in CharSet(g) THEN [g |-> g, app |-> app]
    ELSE With(match_and_merge_character(g, app, name, down),
              LAMBDA m : IF m.matched THEN [g |-> m.g, app |-> m.app]
                         ELSE [g |-> add_character(g, name), app |-> app])

\* resolution of a parsed node string
ResolveNode(g, app, raw, down) ==
    IF ParseIsChar(raw) THEN ResolveCharacter(g, app, ParseName(raw), down)
    ELSE [g |-> get_or_create_object_node(g, ParseName(raw)), app |-> app]

\* target_str is None or target_str.lower() == "null"
TargetIsNull(raw) == raw = NoneRaw \/ IsNullLiteral(raw)

\* One iteration of the loop of insert_triples on triples[i].  st carries the
\* graph, the appearance dict, Edge._id_counter, seen_edges, the number of
\* get_embedding(scene) calls made, the indexes whose edge was stored, the ids
\* created and whether the call has raised.  scene_fail_at = k makes the k-th
\* get_embedding(scene) call raise (0: none does).
\* the source and then the target of the triple resolved, in st.g and st.app
ResolveEndpoints(st, triple, down) ==
    With(ResolveNode(st.g, st.app, triple[1], down),
         LAMBDA s :
           IF TargetIsNull(triple[3]) THEN [st EXCEPT !.g = s.g, !.app = s.app]
           ELSE With(ResolveNode(s.g, s.app, triple[3], down),
                     LAMBDA t : [st EXCEPT !.g = t.g, !.app = t.app]))

\* edge_key = (source_node_name, target_node_name, edge_content)
EdgeKey(triple) ==
    <<ParseName(triple[1]),
      IF TargetIsNull(triple[3]) THEN NoneName ELSE ParseName(triple[3]),
      triple[2]>>

\* the end of an iteration: seen_edges.add, get_embedding(scene), Edge(...),
\* add_edge inside try/except ValueError
EmbedAndAdd(resolved, edge_key, i, clip_id, scene, scene_fail_at) ==
    IF resolved.calls + 1 = scene_fail_at
    THEN [resolved EXCEPT !.seen = @ \cup {edge_key}, !.calls = @ + 1,
                          !.raised = TRUE, !.failed_at = i]
    ELSE With(add_edge(resolved.g,
                       Edge(resolved.counter, clip_id, edge_key[1], edge_key[2],
                            edge_key[3], scene, NoneNum, Embedding(scene))),
              LAMBDA r :
                [resolved EXCEPT !.g = r.g,
                                 !.seen = @ \cup {edge_key},
                                 !.calls = @ + 1,
                                 !.counter = @ + 1,
                                 !.inserted = IF r.ok THEN @ \cup {i} ELSE @,
                                 !.created = IF r.ok THEN @ \cup {resolved.counter + 1} ELSE @])

InsertOne(st, triple, i, clip_id, scene, down, scene_fail_at) ==
    IF st.raised \/ SkippedEarly(triple) THEN st
    ELSE IF EdgeKey(triple) \in st.seen THEN ResolveEndpoints(st, triple, down)
    ELSE EmbedAndAdd(ResolveEndpoints(st, triple, down), EdgeKey(triple), i,
                     clip_id, scene, scene_fail_at)

RECURSIVE InsertFrom(_, _, _, _, _, _, _)
InsertFrom(st, triples, i, clip_id, scene, down, scene_fail_at) ==
    IF i > Len(triples) THEN st
    ELSE InsertFrom(InsertOne(st, triples[i], i, clip_id, scene, down, scene_fail_at),
                    triples, i + 1, clip_id, scene, down, scene_fail_at)

\* HeteroGraph.insert_triples
insert_triples(g, app, counter, triples, clip_id, scene, down, scene_fail_at) ==
    InsertFrom([g |-> g, app |-> app, counter |-> counter, seen |-> {}, calls |-> 0,
                inserted |-> {}, created |-> {}, raised |-> FALSE, failed_at |-> 0],
               triples, 1, clip_id, scene, down, scene_fail_at)

----------------------------------------------------------------------------
\* The synthesizer: appearances and character attributes

\* [feature.strip() for feature in appearance_str.split(",") if feature.strip()]
Features(text) ==
    IF text = "tall, dark hair" THEN <<"tall", "dark hair">>
    ELSE IF text = "" THEN <<>>
    ELSE <<text>>

\* edge = Edge(...); self.add_high_level_edge(edge) in a synthesizer loop:
\* st carries the graph, Edge._id_counter and the history of asserted confidences
AddSynthesized(st, edge) ==
    [g |-> add_high_level_edge(st.g, edge).g, counter |-> st.counter + 1,
     hits |-> st.hits \cup AssertedHit(st.g, edge)]

\* the inner loop of insert_character_appearances: one edge per feature
RECURSIVE AppearanceEdges(_, _, _, _)
AppearanceEdges(st, char_name, features, i) ==
    IF i > Len(features) THEN st
    ELSE AppearanceEdges(
             AddSynthesized(st, Edge(st.counter, 0, char_name, NoneName, features[i],
                                     NoneStr, 100, NoneEmb)),
             char_name, features, i + 1)

\* the keys of a dict taken one after the other
RECURSIVE KeySeq(_)
KeySeq(S) == IF S = {} THEN <<>>
             ELSE LET k == CHOOSE x \in S : TRUE IN <<k>> \o KeySeq(S \ {k})

\* the outer loop of insert_character_appearances
RECURSIVE AppearancesFrom(_, _, _, _)
AppearancesFrom(st, app, keys, i) ==
    IF i > Len(keys) THEN st
    ELSE LET char_name == EnsureBrackets(keys[i])
         IN IF char_name \notin CharSet(st.g)
            THEN AppearancesFrom(st, app, keys, i + 1)
            ELSE AppearancesFrom(AppearanceEdges(st, char_name, Features(app[keys[i]]), 1),
                                 app, keys, i + 1)

\* HeteroGraph.insert_character_appearances
insert_character_appearances(g, counter, app) ==
    AppearancesFrom([g |-> g, counter |-> counter, hits |-> {}], app, KeySeq(DOMAIN app), 1)

\* self.adjacency_list_out[node_id] / self.adjacency_list_in[node_id] of edges_of:
\* reading a defaultdict creates the key
TouchAdjacency(g, node_id) ==
    [g EXCEPT !.out = IF node_id \in DOMAIN @ THEN @ ELSE DictSet(@, node_id, <<>>),
              !.in = IF node_id \in DOMAIN @ THEN @ ELSE DictSet(@, node_id, <<>>)]

\* HeteroGraph.edges_of: the returned set
edges_of(g, node_id) == SeqToSet(GetList(g.out, node_id)) \cup SeqToSet(GetList(g.in, node_id))

\* the test with the bound one lower
ConfidenceUnder49(confidence) == confidence = NoneNum \/ confidence < 49

\* not isinstance(confidence, (int, float)) or confidence < 50
ConfidenceTooLow(confidence) == confidence = NoneNum \/ confidence < 50

\* the edge loop of character_attributes over attributes_dict.items()
RECURSIVE AttributeEdges(_, _, _, _)
AttributeEdges(st, character_name, items, i) ==
    IF i > Len(items) THEN st
    ELSE IF ConfidenceTooLow(items[i][2])
    THEN AttributeEdges(st, character_name, items, i + 1)
    ELSE AttributeEdges(
             AddSynthesized(st, Edge(st.counter, 0, character_name, NoneName, items[i][1],
                                     NoneStr, items[i][2], NoneEmb)),
             character_name, items, i + 1)

\* Python values around the text model: a str holding `json` (the items of a
\* JSON object, or Unparseable for text json.loads rejects), and the tuple
\* (content, total_tokens)
Unparseable == <<"unparseable">>
Str(json) == [type |-> "str", json |-> json]
Tuple(content, total_tokens) ==
    [type |-> "tuple", content |-> content, total_tokens |-> total_tokens]

\* utils.llm.generate_text_response: it returns (content, total_tokens);
\* LLMRaises is a call that raises
LLMRaises == [type |-> "raise"]
generate_text_response(json) == Tuple(Str(json), 1)

\* try: response = generate_text_response(prompt)
\* except Exception: response = generate_text_response(prompt)
\* first and second are the outcomes the provider has for the two calls
WithRetry(first, second) ==
    IF first.type = "raise" THEN [response |-> second, calls |-> 2]
    ELSE [response |-> first, calls |-> 1]

\* utils.general.strip_code_fences: text.strip() raises AttributeError on a
\* value that is not a str (ok = FALSE)
strip_code_fences(text) == [ok |-> text.type = "str", text |-> text]

\* HeteroGraph.character_attributes: ok = FALSE is an exception leaving the method
character_attributes(g, counter, name_arg, response) ==
    LET character_name == EnsureBrackets(name_arg)
        none == [g |-> g, counter |-> counter, hits |-> {}, ok |-> TRUE]
    IN IF character_name \notin CharSet(g) THEN [none EXCEPT !.ok = FALSE]
       ELSE LET g1 == TouchAdjacency(g, character_name)
            IN IF edges_of(g1, character_name) = {} THEN [none EXCEPT !.g = g1]
               ELSE IF response.type = "raise" THEN [none EXCEPT !.g = g1, !.ok = FALSE]
               ELSE IF ~strip_code_fences(response).ok THEN [none EXCEPT !.g = g1, !.ok = FALSE]
               ELSE IF response.json = Unparseable THEN [none EXCEPT !.g = g1]
               ELSE With(AttributeEdges([g |-> g1, counter |-> counter, hits |-> {}],
                                        character_name, response.json, 1),
                         LAMBDA r : [g |-> r.g, counter |-> r.counter, hits |-> r.hits,
                                     ok |-> TRUE])

----------------------------------------------------------------------------
\* Connectivity query: HeteroGraph.get_connected_edges
\*
\* A Python set is walked in the order KeySeq gives; the result list is a
\* sequence of edge ids.

\* the loop over direct_edges: rs is [edges, ids]
RECURSIVE DirectFrom(_, _, _, _)
DirectFrom(g, rs, ids, i) ==
    IF i > Len(ids) THEN rs
    ELSE DirectFrom(g,
                    IF ids[i] \notin rs.ids /\ ids[i] \in DOMAIN g.edges
                    THEN [edges |-> Append(rs.edges, ids[i]), ids |-> rs.ids \cup {ids[i]}]
                    ELSE rs,
                    ids, i + 1)

\* the node of edge1 that is not character1, None when there is none
OtherNode(edge1, character1) ==
    IF edge1.source = character1 THEN edge1.target
    ELSE IF edge1.target = character1 THEN edge1.source
    ELSE NoneName

\* edge2 connects the object to character2
ConnectsToChar2(edge2, other_node, character2) ==
    \/ edge2.source = other_node /\ edge2.target = character2
    \/ edge2.target = other_node /\ edge2.source = character2

\* abs(a - b)
AbsDiff(a, b) == IF a >= b THEN a - b ELSE b - a

\* clip_diff < 4
MaxClipDiff == 4

\* abs(edge1.clip_id - edge2.clip_id) < 4
Close(edge1, edge2) == AbsDiff(edge1.clip_id, edge2.clip_id) < MaxClipDiff

\* the result with an edge id appended unless it is already in it
AppendOnce(rs, edge_id) ==
    IF edge_id \in rs.ids THEN rs
    ELSE [edges |-> Append(rs.edges, edge_id), ids |-> rs.ids \cup {edge_id}]

\* the inner loop, over the edges of the object
RECURSIVE ObjectEdgesFrom(_, _, _, _, _, _, _)
ObjectEdgesFrom(g, rs, edge_id, other_node, character2, ids2, j) ==
    IF j > Len(ids2) THEN rs
    ELSE ObjectEdgesFrom(
             g,
             IF /\ ids2[j] \in DOMAIN g.edges
                /\ ConnectsToChar2(g.edges[ids2[j]], other_node, character2)
                /\ Close(g.edges[edge_id], g.edges[ids2[j]])
             THEN AppendOnce(AppendOnce(rs, edge_id), ids2[j])
             ELSE rs,
             edge_id, other_node, character2, ids2, j + 1)

\* the outer loop, over the edges of character1; st is [g, rs]: edges_of on
\* the object reads the adjacency defaultdicts
RECURSIVE IndirectFrom(_, _, _, _, _)
IndirectFrom(st, character1, character2, ids1, i) ==
    IF i > Len(ids1) THEN st
    ELSE IF ids1[i] \notin DOMAIN st.g.edges
    THEN IndirectFrom(st, character1, character2, ids1, i + 1)
    ELSE IF \/ OtherNode(st.g.edges[ids1[i]], character1) = NoneName
            \/ HasBrackets(OtherNode(st.g.edges[ids1[i]], character1))
    THEN IndirectFrom(st, character1, character2, ids1, i + 1)
    ELSE IndirectFrom(
             With(TouchAdjacency(st.g, OtherNode(st.g.edges[ids1[i]], character1)),
                  LAMBDA g1 :
                    [g |-> g1,
                     rs |-> ObjectEdgesFrom(
                                g1, st.rs, ids1[i],
                                OtherNode(g1.edges[ids1[i]], character1), character2,
                                KeySeq(edges_of(g1, OtherNode(g1.edges[ids1[i]], character1))),
                                1)]),
             character1, character2, ids1, i + 1)

\* the method once both characters are known to exist
ConnectedEdges(g, character1, character2) ==
    With(TouchAdjacency(TouchAdjacency(g, character1), character2),
         LAMBDA g1 :
           IndirectFrom([g |-> g1,
                         rs |-> DirectFrom(g1, [edges |-> <<>>, ids |-> {}],
                                           KeySeq(edges_of(g1, character1)
                                                  \cap edges_of(g1, character2)),
                                           1)],
                        character1, character2, KeySeq(edges_of(g1, character1)), 1))

\* HeteroGraph.get_connected_edges(character1, character2); ok = FALSE is the
\* ValueError for a character that is not in the graph
get_connected_edges(g, character1, character2) ==
    IF \/ EnsureBrackets(character1) \notin CharSet(g)
       \/ EnsureBrackets(character2) \notin CharSet(g)
    THEN [g |-> g, ok |-> FALSE, edges |-> <<>>]
    ELSE With(ConnectedEdges(g, EnsureBrackets(character1), EnsureBrackets(character2)),
              LAMBDA r : [g |-> r.g, ok |-> TRUE, edges |-> r.rs.edges])

----------------------------------------------------------------------------
\* Search: HeteroGraph.search_high_level_edges and search_low_level_edges
\*
\* A query triple is <<source, content, target, source_weight, content_weight,
\* target_weight>>; "?" is the name <<"?", 0>> or the text "?".  Similarities
\* are in thousandths, the score of a low-level edge in hundred-thousandths.

Variable == <<"?", 0>>

\* if w is not None else 1.0
WeightOr1(w) == IF w = NoneNum THEN 1 ELSE w

\* q and q != "?" for a node of the query
NodeGiven(q) == q # NoneName /\ q[1] # "" /\ q # Variable

\* q_content and q_content != "?"
ContentGiven(q_content) == q_content # NoneStr /\ q_content # "" /\ q_content # "?"

\* HeteroGraph._get_node_embedding: nodes carry no embedding attribute
\* (classes/node_class.py), so hasattr(node, 'embedding') is False
get_node_embedding(g, node_str) == NoneEmb

\* HeteroGraph._calculate_node_similarity
calculate_node_similarity(node1_str, node2_str, node1_embedding, node2_embedding) ==
    IF node1_str = NoneName \/ node1_str = Variable \/ node2_str = NoneName
          \/ node2_str = Variable
    THEN 0
    ELSE IF node1_str[1] = "" \/ node2_str[1] = "" THEN 0
    ELSE IF HasBrackets(node1_str) /\ HasBrackets(node2_str)
    THEN (IF node1_str = node2_str THEN 1000 ELSE 0)
    ELSE IF node1_embedding = NoneEmb \/ node2_embedding = NoneEmb THEN 0
    ELSE 10 * CosinePct(node1_embedding[2], node2_embedding[2])

\* the similarity of a query node and an edge node, with its weight
NodeTerm(g, q, q_emb, edge_node, weight) ==
    IF NodeGiven(q) /\ edge_node # NoneName
    THEN calculate_node_similarity(q, edge_node, q_emb, get_node_embedding(g, edge_node))
         * weight
    ELSE 0

\* the content similarity of _compute_edge_similarity
ContentTerm(edge, q_content, content_emb, weight) ==
    IF ContentGiven(q_content) /\ edge.content # "" /\ content_emb # NoneEmb
          /\ edge.embedding # NoneEmb
    THEN 10 * CosinePct(content_emb[2], edge.embedding[2]) * weight
    ELSE 0

\* HeteroGraph._compute_edge_similarity(edge, query_triple, query_embeddings)
compute_edge_similarity(g, edge, q, embs) ==
    ContentTerm(edge, q[2], embs[2], WeightOr1(q[5]))
    + MaxOf({NodeTerm(g, q[1], embs[1], edge.source, WeightOr1(q[4]))
               + NodeTerm(g, q[3], embs[3], edge.target, WeightOr1(q[6])),
             NodeTerm(g, q[1], embs[1], edge.target, WeightOr1(q[4]))
               + NodeTerm(g, q[3], embs[3], edge.source, WeightOr1(q[6]))})

\* the embeddings computed for one query triple: [source, content, target]
QueryEmbeddings(q) ==
    << IF NodeGiven(q[1]) THEN Embedding(StripBrackets(q[1])[1]) ELSE NoneEmb,
       IF ContentGiven(q[2]) THEN Embedding(q[2]) ELSE NoneEmb,
       IF NodeGiven(q[3]) THEN Embedding(StripBrackets(q[3])[1]) ELSE NoneEmb >>

\* the search asks the provider for at least one embedding
NeedsProvider(query_triples, spatial_constraints) ==
    \/ spatial_constraints # NoneStr
    \/ \E i \in 1..Len(query_triples) :
          \E c \in 1..3 : QueryEmbeddings(query_triples[i])[c] # NoneEmb

\* max over the query triples, starting from 0.0
BestOverTriples(g, edge, query_triples) ==
    MaxOf({0} \cup {compute_edge_similarity(g, edge, query_triples[i],
                                            QueryEmbeddings(query_triples[i])) :
                    i \in 1..Len(query_triples)})

\* the score of a high-level candidate: similarity plus weighted confidence
HighLevelScore(g, edge, query_triples) ==
    BestOverTriples(g, edge, query_triples)
    + (IF edge.confidence # NoneNum /\ edge.confidence # 0 THEN 3 * edge.confidence ELSE 0)

\* scene_sim of search_low_level_edges, in percent
SceneSim(edge, spatial_constraints) ==
    IF spatial_constraints = NoneStr \/ edge.scene = NoneStr \/ edge.scene = "" THEN 100
    ELSE IF edge.scene_embedding # NoneEmb
    THEN CosinePct(spatial_constraints, edge.scene_embedding[2])
    ELSE CosinePct(spatial_constraints, edge.scene)

\* the score of a low-level candidate: base_similarity * scene_sim
LowLevelScore(g, edge, query_triples, spatial_constraints) ==
    BestOverTriples(g, edge, query_triples) * SceneSim(edge, spatial_constraints)

\* the ids of self.edges in dict order that pass the filter
RECURSIVE CandidatesFrom(_, _, _)
CandidatesFrom(g, keep(_), id) ==
    IF id > MaxOf({0} \cup DOMAIN g.edges) THEN <<>>
    ELSE (IF id \in DOMAIN g.edges /\ keep(g.edges[id]) THEN <<id>> ELSE <<>>)
         \o CandidatesFrom(g, keep, id + 1)

\* edge.clip_id == 0 and edge.scene is None
HighLevelCandidate(edge) == edge.clip_id = 0 /\ edge.scene = NoneStr

\* edge.clip_id > 0 and edge.scene is not None
LowLevelCandidate(edge) == edge.clip_id > 0 /\ edge.scene # NoneStr

\* the list as it is, not sorted
Unsorted(scored) == scored

\* one pair put into a list sorted by score descending, behind the pairs of
\* the same score
RECURSIVE InsertByScore(_, _)
InsertByScore(sorted, pair) ==
    IF sorted = <<>> THEN <<pair>>
    ELSE IF sorted[1][1] >= pair[1] THEN <<sorted[1]>> \o InsertByScore(Tail(sorted), pair)
    ELSE <<pair>> \o sorted

RECURSIVE SortFrom(_, _, _)
SortFrom(sorted, scored, i) ==
    IF i > Len(scored) THEN sorted
    ELSE SortFrom(InsertByScore(sorted, scored[i]), scored, i + 1)

\* scored_edges.sort(key=lambda x: x[0], reverse=True): list.sort is stable,
\* pairs of equal score keep their order
SortByScore(scored) == SortFrom(<<>>, scored, 1)

\* scored_edges[:k] for k >= 0
FirstK(sorted, k) == SubSeq(sorted, 1, IF k < Len(sorted) THEN k ELSE Len(sorted))

\* the end of both searches: sort and cut; scored is a list of <<score, id>>
TopK(scored, k) ==
    [ok |-> TRUE, scored |-> scored,
     edges |-> [i \in 1..Len(FirstK(SortByScore(scored), k)) |->
                   FirstK(SortByScore(scored), k)[i][2]]]

\* what a search returns before it scores anything
NoResult == [ok |-> TRUE, scored |-> <<>>, edges |-> <<>>]

\* HeteroGraph.search_high_level_edges(query_triples, k); down: the provider
\* fails, and get_embedding raises out of the method
search_high_level_edges(g, query_triples, k, down) ==
    IF query_triples = <<>> THEN NoResult
    ELSE IF CandidatesFrom(g, HighLevelCandidate, 1) = <<>> THEN NoResult
    ELSE IF down /\ NeedsProvider(query_triples, NoneStr) THEN [NoResult EXCEPT !.ok = FALSE]
    ELSE With(CandidatesFrom(g, HighLevelCandidate, 1),
              LAMBDA ids :
                TopK([i \in 1..Len(ids) |->
                         <<HighLevelScore(g, g.edges[ids[i]], query_triples), ids[i]>>],
                     k))

\* HeteroGraph.search_low_level_edges(query_triples, k, spatial_constraints)
search_low_level_edges(g, query_triples, k, spatial_constraints, down) ==
    IF query_triples = <<>> THEN NoResult
    ELSE IF down /\ NeedsProvider(query_triples, spatial_constraints)
    THEN [NoResult EXCEPT !.ok = FALSE]
    ELSE IF CandidatesFrom(g, LowLevelCandidate, 1) = <<>> THEN NoResult
    ELSE With(CandidatesFrom(g, LowLevelCandidate, 1),
              LAMBDA ids :
                TopK([i \in 1..Len(ids) |->
                         <<LowLevelScore(g, g.edges[ids[i]], query_triples,
                                         spatial_constraints), ids[i]>>],
                     k))

\* HeteroGraph.edge_embedding_insertion: every edge gets the embedding of its content
edge_embedding_insertion(g) ==
    [g EXCEPT !.edges = [id \in DOMAIN g.edges |->
                            [g.edges[id] EXCEPT !.embedding = Embedding(g.edges[id].content)]]]

----------------------------------------------------------------------------
\* Conversation store: classes/conversation.py and HeteroGraph.update_conversation
\*
\* A message passed in is a Python list: <<speaker, content>> when it has two
\* elements, <<speaker>> when it has one.  A stored message is
\* <<speaker, content, clip_id, embedding>>.  The text handed to the embedding
\* provider for a message is <<prefix, content>>: prefix is the speaker name
\* printed before ": ", or NoneName when the content is embedded alone.

\* isinstance(msg, list) and len(msg) >= 2
WellFormed(msg) == Len(msg) >= 2

\* if s.startswith("<") and s.endswith(">"): s = s[1:-1]
StripOuter(name) == IF HasBrackets(name) THEN <<name[1], name[2] - 1>> ELSE name

\* f"{speaker_name}: {content}"
FormattedMsg(speaker_name, content) == <<speaker_name, content>>

\* the content of a message as a text of its own
ContentOnly(content) == <<NoneName, content>>

\* try: get_embedding(text) except Exception: None; `down` are the texts the
\* provider fails on
TryEmbedding(text, down) == IF text \in down THEN NoneEmb ELSE Embedding(text)

\* set((msg[0], msg[1]) for msg in self.messages if len(msg) >= 2)
ExistingMessages(messages) ==
    {<<messages[i][1], messages[i][2]>> : i \in {j \in 1..Len(messages) : WellFormed(messages[j])}}

\* the speakers Conversation.__init__ collects: msg[0] of every message
SpeakersOf(messages) == {messages[i][1] : i \in 1..Len(messages)}

\* Conversation.__init__(clip_id, messages) with speakers and summary left out
Conversation(id, clip_id, messages) ==
    [id |-> id, clips |-> <<clip_id>>, messages |-> messages,
     speakers |-> SpeakersOf(messages), summary |-> ""]

\* one iteration of the loop of Conversation.add_messages; acc is
\* [existing, new, speakers]
AddMessage(acc, msg, clip_id, down) ==
    IF WellFormed(msg) /\ <<msg[1], msg[2]>> \notin acc.existing
    THEN [existing |-> acc.existing \cup {<<msg[1], msg[2]>>},
          new |-> Append(acc.new, <<msg[1], msg[2], clip_id,
                                    TryEmbedding(ContentOnly(msg[2]), down)>>),
          speakers |-> acc.speakers \cup {msg[1]}]
    ELSE acc


RECURSIVE AddMessagesFrom(_, _, _, _, _)
AddMessagesFrom(acc, messages, i, clip_id, down) ==
    IF i > Len(messages) THEN acc
    ELSE AddMessagesFrom(AddMessage(acc, messages[i], clip_id, down),
                         messages, i + 1, clip_id, down)

\* self.messages.extend(new_messages), with the speakers added on the way
ExtendWith(conversation, acc) ==
    [conversation EXCEPT !.messages = @ \o acc.new, !.speakers = acc.speakers]

\* Conversation.add_messages(messages, clip_id)
add_messages(conversation, messages, clip_id, down) ==
    IF messages = <<>> THEN conversation
    ELSE ExtendWith(conversation,
                    AddMessagesFrom([existing |-> ExistingMessages(conversation.messages),
                                     new |-> <<>>,
                                     speakers |-> conversation.speakers],
                                    messages, 1, clip_id, down))

\* the clip list left as it was
KeepClips(conversation, clip_id) == conversation

\* Conversation.add_clip(clip_id)
add_clip(conversation, clip_id) ==
    IF clip_id \in SeqToSet(conversation.clips) THEN conversation
    ELSE [conversation EXCEPT !.clips = Append(@, clip_id)]

\* the loop of update_conversation that builds formatted_messages
RECURSIVE FormatMessagesFrom(_, _, _, _)
FormatMessagesFrom(messages, i, clip_id, down) ==
    IF i > Len(messages) THEN <<>>
    ELSE (IF WellFormed(messages[i])
          THEN << <<messages[i][1], messages[i][2], clip_id,
                    TryEmbedding(FormattedMsg(StripOuter(messages[i][1]), messages[i][2]),
                                 down)>> >>
          ELSE <<>>)
         \o FormatMessagesFrom(messages, i + 1, clip_id, down)

\* the store of a graph: [conversations, current, counter]
Store == [conversations |-> conversations, current |-> current_conversation_id,
          counter |-> conversation_id_counter]

\* the branch taken whatever the caller passes as previous_conversation
ContinuesAlways(st, previous_conversation) ==
    /\ st.current # NoneNum
    /\ st.current \in DOMAIN st.conversations

\* the continuation branch is taken: previous_conversation, an active id, and
\* self.conversations.get(id) is there
Continues(st, previous_conversation) ==
    /\ previous_conversation
    /\ st.current # NoneNum
    /\ st.current \in DOMAIN st.conversations

\* conversation.add_messages(messages, clip_id); conversation.add_clip(clip_id)
AppendToCurrent(st, clip_id, messages, down) ==
    [st |-> [st EXCEPT !.conversations =
                 DictSet(@, st.current,
                         add_clip(add_messages(st.conversations[st.current],
                                               messages, clip_id, down),
                                  clip_id))],
     ret |-> st.current]

\* Conversation(clip_id=clip_id, messages=formatted_messages), stored and made
\* the current one
CreateConversation(st, clip_id, messages, down) ==
    [st |-> [conversations |->
                 DictSet(st.conversations, st.counter + 1,
                         Conversation(st.counter + 1, clip_id,
                                      FormatMessagesFrom(messages, 1, clip_id, down))),
             current |-> st.counter + 1,
             counter |-> st.counter + 1],
     ret |-> st.counter + 1]

\* HeteroGraph.update_conversation(clip_id, messages, previous_conversation)
update_conversation(st, clip_id, messages, previous_conversation, down) ==
    IF messages = <<>> THEN [st |-> st, ret |-> NoneNum]
    ELSE IF Continues(st, previous_conversation)
         THEN AppendToCurrent(st, clip_id, messages, down)
         ELSE CreateConversation(st, clip_id, messages, down)

----------------------------------------------------------------------------
\* Conversation summaries: HeteroGraph.extract_conversation_summary and the
\* step of process_full_video that closes a conversation
\*
\* The JSON text the model is asked for is a record: valid = FALSE for text
\* json.loads rejects, else the keys of the object.  A result dict is a
\* function from its keys.

\* the dict returned when there is nothing to report
EmptyResult ==
    [summary |-> "", character_attributes |-> <<>>, characters_relationships |-> <<>>]

\* d.get(key, default) on a result dict
DictGet(d, key, default) == IF key \in DOMAIN d THEN d[key] ELSE default

\* if char_name not in self.characters: self.add_character(char_name)
EnsureCharacter(st, char_name) ==
    IF char_name \in CharSet(st.g) THEN st
    ELSE [st EXCEPT !.g = add_character(st.g, char_name)]

\* the loop over character_attributes: [character, attribute, confidence]
RECURSIVE SummaryAttributeEdges(_, _, _)
SummaryAttributeEdges(st, items, i) ==
    IF i > Len(items) THEN st
    ELSE IF Len(items[i]) < 3 \/ ConfidenceTooLow(items[i][3])
    THEN SummaryAttributeEdges(st, items, i + 1)
    ELSE SummaryAttributeEdges(
             With(EnsureCharacter(st, EnsureBrackets(items[i][1])),
                  LAMBDA s1 : AddSynthesized(s1, Edge(s1.counter, 0, EnsureBrackets(items[i][1]),
                                                      NoneName, items[i][2], NoneStr,
                                                      items[i][3], NoneEmb))),
             items, i + 1)

\* the loop over characters_relationships: [character1, relationship,
\* character2, confidence]
RECURSIVE SummaryRelationshipEdges(_, _, _)
SummaryRelationshipEdges(st, items, i) ==
    IF i > Len(items) THEN st
    ELSE IF Len(items[i]) < 4 \/ ConfidenceTooLow(items[i][4])
    THEN SummaryRelationshipEdges(st, items, i + 1)
    ELSE SummaryRelationshipEdges(
             With(EnsureCharacter(EnsureCharacter(st, EnsureBrackets(items[i][1])),
                                  EnsureBrackets(items[i][3])),
                  LAMBDA s1 : AddSynthesized(s1, Edge(s1.counter, 0, EnsureBrackets(items[i][1]),
                                                      EnsureBrackets(items[i][3]), items[i][2],
                                                      NoneStr, items[i][4], NoneEmb))),
             items, i + 1)

\* lines 946-1040: the parsed object is applied to the conversation and the graph
ApplySummary(none, conversation_id, result_dict) ==
    With(SummaryRelationshipEdges(
             SummaryAttributeEdges([g |-> none.g, counter |-> none.counter, hits |-> {}],
                                   result_dict.character_attributes, 1),
             result_dict.characters_relationships, 1),
         LAMBDA r :
           [none EXCEPT !.g = r.g, !.counter = r.counter, !.hits = r.hits,
                        !.conversations[conversation_id].summary = result_dict.summary,
                        !.result = [summary |-> result_dict.summary,
                                    character_attributes |-> result_dict.character_attributes,
                                    characters_relationships |->
                                        result_dict.characters_relationships]])

\* lines 932-1040: what is done with the response of the text model
UseSummaryResponse(none, conversation_id, response) ==
    IF response.type = "raise" THEN [none EXCEPT !.ok = FALSE]
    ELSE IF ~strip_code_fences(response).ok THEN [none EXCEPT !.ok = FALSE]
    ELSE IF ~strip_code_fences(response).text.json.valid THEN none
    ELSE ApplySummary(none, conversation_id, strip_code_fences(response).text.json)

\* HeteroGraph.extract_conversation_summary(conversation_id); ok = FALSE is an
\* exception leaving the method, calls the number of calls of the text model
extract_conversation_summary(g, counter, convs, conversation_id, first, second) ==
    With([g |-> g, counter |-> counter, hits |-> {}, conversations |-> convs,
          ok |-> TRUE, result |-> EmptyResult, calls |-> 0],
         LAMBDA none :
           IF conversation_id \notin DOMAIN convs THEN [none EXCEPT !.ok = FALSE]
           ELSE IF convs[conversation_id].messages = <<>> THEN none
           ELSE UseSummaryResponse([none EXCEPT !.calls = WithRetry(first, second).calls],
                                   conversation_id, WithRetry(first, second).response))

\* utils.general.update_character_appearance_keys on the appearance dict
update_character_appearance_keys(app, character_id, character_name) ==
    IF character_id \notin DOMAIN app THEN app
    ELSE IF character_name \in DOMAIN app
    THEN DictDel(IF Len(app[character_id]) > Len(app[character_name])
                 THEN DictSet(app, character_name, app[character_id])
                 ELSE app,
                 character_id)
    ELSE DictDel(DictSet(app, character_name, app[character_id]), character_id)

\* for character_id, character_name in renamed_characters:
\*     update_character_appearance_keys(character_appearance, ...)
RECURSIVE RekeyFrom(_, _, _)
RekeyFrom(app, renamed_characters, i) ==
    IF i > Len(renamed_characters) THEN app
    ELSE RekeyFrom(update_character_appearance_keys(app, renamed_characters[i][1],
                                                    renamed_characters[i][2]),
                   renamed_characters, i + 1)

\* process_full_video, lines 113-127: the summary of the conversation that
\* ended, inside try/except; what the method did before it raised stays
CloseConversation(g, counter, convs, app, conversation_id, first, second) ==
    With(extract_conversation_summary(g, counter, convs, conversation_id, first, second),
         LAMBDA r :
           [g |-> r.g, counter |-> r.counter, hits |-> r.hits,
            conversations |-> r.conversations, ok |-> r.ok, calls |-> r.calls,
            result |-> r.result,
            app |-> IF r.ok
                    THEN RekeyFrom(app, DictGet(r.result, "renamed_characters", <<>>), 1)
                    ELSE app])

----------------------------------------------------------------------------
\* Inputs

\* arguments of add_character
CharacterArgs == {<<"Alice", 0>>, <<"character_1", 1>>}

\* arguments of rename_character
RenameOldArgs == {<<"character_1", 0>>, <<"Alice", 1>>}
RenameNewArgs == {<<"Alice", 0>>, <<"character_1", 1>>, <<"robot", 2>>}

\* fields an Edge passed to add_edge may carry
EdgeSources == {<<"character_1", 1>>}
EdgeTargets == {NoneName, <<"character_1", 1>>, <<"Alice", 1>>}
\* (clip_id, scene) of such an Edge
EdgeKinds == {<<0, NoneStr>>, <<1, "kitchen">>}

\* scenes the driver passes: response_dict.get("scene")
Scenes == {NoneStr, "kitchen"}

\* fields of a high-level Edge passed to add_high_level_edge
Confidences == {NoneNum, 60, 70, 80}

\* clip ids the driver passes: the frame folders are numbered from 1
ClipIds == {1}

\* appearance entries of one clip (character_appearance.update)
AppearanceUpdates ==
    { (<<"character_1", 1>> :> "tall, dark hair") @@ (<<"Alice", 1>> :> "tall"),
      (<<"Alice", 1>> :> "short") }

\* triple lists the extraction model returns for a clip
ClipBatches ==
    { << << <<"character_1", 1, 1>>, "waves", <<"null", 0, 0>> >> >>,
      << << <<"Alice", 1, 0>>, "holds", <<"coffee", 0, 0>> >> >>,
      << << <<"character_1", 1, 0>>, "waves", <<"Alice", 1, 0>> >> >> }

\* triple lists passed to insert_triples among the other calls of the API
ApiBatches ==
    ClipBatches \cup
    { << << <<"character_1", 1, 1>>, "waves", <<"null", 0, 0>> >>,
         << <<"Alice", 1, 0>>, "holds", <<"coffee", 0, 0>> >> >> }

BatchTriples ==
    { << <<"character_1", 1, 1>>, "waves", <<"null", 0, 0>> >>,
      << <<"Alice", 1, 0>>, "waves", NoneRaw >>,
      << <<"Alice", 1, 0>>, "", NoneRaw >>,
      << NoneRaw, "waves", NoneRaw >>,
      Malformed }

RECURSIVE SeqsUpTo(_, _)
SeqsUpTo(S, n) ==
    IF n = 0 THEN {<<>>}
    ELSE LET shorter == SeqsUpTo(S, n - 1)
         IN shorter \cup {Append(q, x) : q \in {r \in shorter : Len(r) = n - 1}, x \in S}

\* arguments of character_attributes
AttributeArgs == {<<"character_1", 0>>}

\* answers of the text model to character_attributes
AttributeResponses ==
    { LLMRaises, generate_text_response(Unparseable),
      generate_text_response(<< <<"kind", 80>>, <<"shy", 40>> >>) }

\* message lists the multimodal model returns for a clip: [speaker, content]
\* pairs; a line may come twice, and an entry may lack its content
MessageLists ==
    { <<>>,
      << <<<<"Alice", 1>>, "hi">> >>,
      << <<<<"Alice", 1>>, "hi">>, <<<<"robot", 0>>, "bye">> >>,
      << <<<<"robot", 0>>, "bye">>, <<<<"Alice", 1>>, "hi">>, <<<<"robot", 0>>, "bye">> >>,
      << << <<"Alice", 1>> >>, <<<<"robot", 0>>, "hi">> >> }

\* clip ids update_conversation is called with
ConversationClipIds == {1, 2}

\* texts of one message list
MessageTexts(messages) ==
    UNION {{FormattedMsg(StripOuter(messages[i][1]), messages[i][2]),
            ContentOnly(messages[i][2])} :
           i \in {j \in 1..Len(messages) : WellFormed(messages[j])}}


\* the object the text model is asked for at the end of a conversation
SummaryObject ==
    [valid |-> TRUE,
     name_equivalences |-> << << <<"character_1", 1>>, <<"Alice", 1>> >> >>,
     summary |-> "a greeting",
     character_attributes |-> << << <<"Alice", 0>>, "kind", 80 >> >>,
     characters_relationships |-> << << <<"Alice", 1>>, "friend", <<"robot", 0>>, 70 >> >>]

\* outcomes of one call of the text model for a conversation summary
SummaryResponses ==
    { LLMRaises, generate_text_response([valid |-> FALSE]),
      generate_text_response(SummaryObject) }

\* triple lists that tie characters to each other and to objects
ConnectivityBatches ==
    { << << <<"character_1", 1, 0>>, "waves", <<"null", 0, 0>> >> >>,
      << << <<"character_1", 1, 0>>, "holds", <<"coffee", 0, 0>> >> >>,
      << << <<"coffee", 0, 0>>, "is near", <<"Alice", 1, 0>> >> >>,
      << << <<"character_1", 1, 0>>, "greets", <<"Alice", 1, 0>> >> >> }

\* clip ids near and far from each other
ConnectivityClipIds == {1, 5}

\* arguments of get_connected_edges
ConnectivityArgs == {<<"character_1", 0>>, <<"Alice", 1>>, <<"Bob", 1>>}

\* query triple lists the query parser produces
QueryTripleLists ==
    { << << ROBOT, "waves", ROBOT, 1, 1, 1 >> >>,
      << << Variable, "waves", NoneName, NoneNum, 2, 1 >>,
         << <<"robot", 0>>, "?", <<"Alice", 1>>, 1, 1, 1 >> >> }

\* k of a search
SearchK == {2}

\* spatial_constraints of search_low_level_edges
SpatialConstraints == {NoneStr, "garden"}

----------------------------------------------------------------------------
\* Actions

\* history: no Edge was passed
NoEdge == [id |-> 0]

NoLast == [op |-> "init", ok |-> TRUE, ret |-> NoneNum, old |-> NoneName, new |-> NoneName,
           edge |-> NoEdge, triples |-> <<>>, created |-> {}, inserted |-> {}, would |-> {},
           failed_at |-> 0, args |-> <<>>]

\* the runs of reason() in separate processes, run p for the video p
MaxRuns == 3
Runs == 1..MaxRuns

\* token_usage.json: absent, or a file whose text is a JSON object with the
\* dict `reasoning` (valid) or is not JSON (the file just opened with "w")
NoFile == [exists |-> FALSE, valid |-> FALSE, reasoning |-> <<>>]
Truncated == [exists |-> TRUE, valid |-> FALSE, reasoning |-> <<>>]
UsageFile(reasoning) == [exists |-> TRUE, valid |-> TRUE, reasoning |-> reasoning]

\* no file yet, nobody holds the lock (0), no run has reached
\* _update_token_usage; data is the local dict of a run
NoUsage == [file |-> NoFile, lock |-> 0, pc |-> [p \in Runs |-> "running"],
            total_tokens |-> [p \in Runs |-> 0], data |-> [p \in Runs |-> <<>>]]

\* process_full_video has not been called
NoDriver == [pc |-> "idle", image_folders |-> <<>>, next |-> 1, attempted |-> <<>>,
             failed |-> {}, previous_conversation |-> FALSE, episodic_memory |-> {},
             characters |-> <<>>, phases |-> <<>>, summarized |-> <<>>]

Init ==
    /\ characters = NewGraph.characters
    /\ objects = NewGraph.objects
    /\ edges = NewGraph.edges
    /\ adjacency_list_out = NewGraph.out
    /\ adjacency_list_in = NewGraph.in
    /\ id_counter = 0
    /\ character_appearance = <<>>
    /\ conversations = <<>>
    /\ current_conversation_id = NoneNum
    /\ conversation_id_counter = 0
    /\ embedding_requests = <<>>
    /\ driver = NoDriver
    /\ token_usage = NoUsage
    /\ asserted = <<>>
    /\ last = NoLast
    /\ ops = 0

SetGraph(g) ==
    /\ characters' = g.characters
    /\ objects' = g.objects
    /\ edges' = g.edges
    /\ adjacency_list_out' = g.out
    /\ adjacency_list_in' = g.in

AddCharacter ==
    \E name \in CharacterArgs :
        /\ SetGraph(add_character(Graph, name))
        /\ last' = [NoLast EXCEPT !.op = "add_character"]
        /\ UNCHANGED <<id_counter, character_appearance, asserted>>

RenameCharacter ==
    \E old_arg \in RenameOldArgs, new_arg \in RenameNewArgs :
        \E r \in {rename_character(Graph, old_arg, new_arg)} :
           /\ SetGraph(r.g)
           /\ last' = [NoLast EXCEPT !.op = "rename_character", !.ok = r.ok,
                                     !.old = EnsureBrackets(old_arg),
                                     !.new = Wrap(StripBrackets(new_arg))]
           /\ UNCHANGED <<id_counter, character_appearance, asserted>>

\* the caller builds an Edge and passes it to add_edge
AddEdgeOf(kinds, sources, targets, confidences) ==
    /\ \E kind \in kinds, source \in sources, target \in targets,
          confidence \in confidences :
          \E e \in {Edge(id_counter, kind[1], source, target, "waves", kind[2],
                          confidence, NoneEmb)} :
           \E r \in {add_edge(Graph, e)} :
             /\ SetGraph(r.g)
             /\ id_counter' = id_counter + 1
             /\ last' = [NoLast EXCEPT !.op = "add_edge", !.ok = r.ok, !.edge = e]
             /\ UNCHANGED <<character_appearance, asserted>>

AddEdge == AddEdgeOf(EdgeKinds, EdgeSources, EdgeTargets, {NoneNum})

\* edges between the nodes a new graph has, with and without a confidence
AddSearchEdge == AddEdgeOf(EdgeKinds, {ROBOT}, {NoneName, ROBOT}, {NoneNum, 60})

\* the caller builds a high-level Edge and passes it to add_high_level_edge
AddHighLevelEdge ==
    /\ \E confidence \in Confidences :
          \E e \in {Edge(id_counter, 0, <<"character_1", 1>>, NoneName, "kind", NoneStr,
                          confidence, NoneEmb)} :
           \E r \in {add_high_level_edge(Graph, e)} :
             /\ SetGraph(r.g)
             /\ id_counter' = id_counter + 1
             /\ asserted' = RecordAsserted(asserted, AssertedHit(Graph, e))
             /\ last' = [NoLast EXCEPT !.op = "add_high_level_edge", !.ok = r.ok,
                                       !.ret = r.ret, !.edge = e]
             /\ UNCHANGED character_appearance

\* process_full_video: character_appearance.update(new_character_appearance)
UpdateAppearance ==
    \E new \in AppearanceUpdates :
        /\ character_appearance' = new @@ character_appearance
        /\ last' = [NoLast EXCEPT !.op = "update_appearance"]
        /\ UNCHANGED <<characters, objects, edges, adjacency_list_out, adjacency_list_in,
                       id_counter, asserted>>

\* texts of the appearance dict the provider may fail on during one call
DownSets == {{}, {character_appearance[k] : k \in DOMAIN character_appearance}}

\* insert_triples on a list drawn from `batches`; `detail` keeps the list and
\* the per-triple outcome in the history
InsertTriplesOf(batches, clip_ids, scenes, detail) ==
    \E triples \in batches, clip_id \in clip_ids, scene \in scenes, down \in DownSets :
      \E scene_fail_at \in 0..Len(triples) :
        \E r \in {insert_triples(Graph, character_appearance, id_counter, triples,
                                 clip_id, scene, down, scene_fail_at)},
           w \in {insert_triples(Graph, character_appearance, id_counter, triples,
                                 clip_id, scene, down, 0)} :
           /\ SetGraph(r.g)
           /\ id_counter' = r.counter
           /\ character_appearance' = r.app
           /\ last' = IF detail
                      THEN [NoLast EXCEPT !.op = "insert_triples", !.ok = ~r.raised,
                                          !.args = [scene |-> scene, calls |-> r.calls],
                                          !.triples = triples, !.created = r.created,
                                          !.inserted = r.inserted, !.would = w.inserted,
                                          !.failed_at = r.failed_at]
                      ELSE [NoLast EXCEPT !.op = "insert_triples", !.ok = ~r.raised]
           /\ UNCHANGED asserted

InsertTriples == InsertTriplesOf(ApiBatches, ClipIds, Scenes, FALSE)

\* insert_triples with a clip id and a scene as process_full_video passes them:
\* int(Path(folder).name) and response_dict.get("scene")
InsertClipTriples == InsertTriplesOf(ClipBatches, ClipIds, Scenes, FALSE)

InsertBatch == InsertTriplesOf(SeqsUpTo(BatchTriples, MaxBatch), ClipIds, {"kitchen"}, TRUE)

InsertCharacterAppearances ==
    \E r \in {insert_character_appearances(Graph, id_counter, character_appearance)} :
       /\ SetGraph(r.g)
       /\ id_counter' = r.counter
       /\ asserted' = RecordAsserted(asserted, r.hits)
       /\ last' = [NoLast EXCEPT !.op = "synthesizer"]
       /\ UNCHANGED character_appearance

CharacterAttributes ==
    \E name_arg \in AttributeArgs, response \in AttributeResponses :
        \E r \in {character_attributes(Graph, id_counter, name_arg, response)} :
           /\ SetGraph(r.g)
           /\ id_counter' = r.counter
           /\ asserted' = RecordAsserted(asserted, r.hits)
           /\ last' = [NoLast EXCEPT !.op = "synthesizer"]
           /\ UNCHANGED character_appearance

\* update_conversation as process_full_video and other callers invoke it; the
\* provider answers every text of the call or none
UpdateConversation ==
    \E messages \in MessageLists, clip_id \in ConversationClipIds,
       previous_conversation \in BOOLEAN :
      \E down \in {{}, MessageTexts(messages)} :
        \E r \in {update_conversation(Store, clip_id, messages, previous_conversation, down)} :
           /\ conversations' = r.st.conversations
           /\ current_conversation_id' = r.st.current
           /\ conversation_id_counter' = r.st.counter
           /\ last' = [NoLast EXCEPT !.op = "update_conversation", !.ret = r.ret,
                                     !.args = [clip_id |-> clip_id, messages |-> messages,
                                               previous_conversation |-> previous_conversation]]
           /\ UNCHANGED graphVars

\* process_full_video closes the conversation that ended: lines 112-127
ExtractConversationSummary ==
    /\ current_conversation_id # NoneNum
    /\ \E first \in SummaryResponses, second \in SummaryResponses :
         \E r \in {CloseConversation(Graph, id_counter, conversations, character_appearance,
                                     current_conversation_id, first, second)} :
            /\ SetGraph(r.g)
            /\ id_counter' = r.counter
            /\ asserted' = RecordAsserted(asserted, r.hits)
            /\ conversations' = r.conversations
            /\ character_appearance' = r.app
            /\ last' = [NoLast EXCEPT !.op = "extract_conversation_summary", !.ok = r.ok,
                                      !.args = [conversation_id |-> current_conversation_id,
                                                first |-> first, second |-> second,
                                                calls |-> r.calls, result |-> r.result]]
            /\ UNCHANGED <<current_conversation_id, conversation_id_counter>>

\* insert_triples on the lists that tie characters and objects
InsertConnectivityTriples ==
    InsertTriplesOf(ConnectivityBatches, ConnectivityClipIds, {"kitchen"}, FALSE)

GetConnectedEdges ==
    \E character1 \in ConnectivityArgs, character2 \in ConnectivityArgs :
        \E r \in {get_connected_edges(Graph, character1, character2)} :
           /\ SetGraph(r.g)
           /\ last' = [NoLast EXCEPT !.op = "get_connected_edges", !.ok = r.ok,
                                     !.args = [character1 |-> EnsureBrackets(character1),
                                               character2 |-> EnsureBrackets(character2),
                                               edges |-> r.edges]]
           /\ UNCHANGED <<id_counter, character_appearance, asserted>>

EdgeEmbeddingInsertion ==
    /\ SetGraph(edge_embedding_insertion(Graph))
    /\ last' = [NoLast EXCEPT !.op = "edge_embedding_insertion"]
    /\ UNCHANGED <<id_counter, character_appearance, asserted>>

\* the history of a search: its k, its query triples, the scored candidates
\* and the ids returned
SearchDone(op, k, query_triples, r) ==
    /\ last' = [NoLast EXCEPT !.op = op, !.ok = r.ok,
                              !.args = [k |-> k, query_triples |-> query_triples,
                                        scored |-> r.scored, edges |-> r.edges]]
    /\ UNCHANGED graphVars

SearchHighLevelEdges ==
    \E query_triples \in QueryTripleLists, k \in SearchK, down \in BOOLEAN :
        SearchDone("search_high_level_edges", k, query_triples,
                   search_high_level_edges(Graph, query_triples, k, down))

SearchLowLevelEdges ==
    \E query_triples \in QueryTripleLists, k \in SearchK,
       spatial_constraints \in SpatialConstraints, down \in BOOLEAN :
        SearchDone("search_low_level_edges", k, query_triples,
                   search_low_level_edges(Graph, query_triples, k, spatial_constraints, down))

\* an operation on the node and edge stores leaves the conversations alone
GraphOp(A) == A /\ UNCHANGED conversationVars

\* the requests to the embedding provider are not recorded, and the call is
\* not one of process_full_video
Unrecorded == UNCHANGED <<embedding_requests, driver, token_usage>>

\* get_embedding(scene) of insert_triples: one request per call made
InsertTriplesRequests(scene, calls) == [i \in 1..calls |-> ContentOnly(scene)]

\* the get_embedding calls of update_conversation: the formatted line of every
\* message of a new conversation, the content of every message add_messages keeps
ConversationRequests(st, messages, previous_conversation) ==
    IF messages = <<>> THEN <<>>
    ELSE IF Continues(st, previous_conversation)
    THEN With(AddMessagesFrom([existing |-> ExistingMessages(st.conversations[st.current].messages),
                               new |-> <<>>, speakers |-> {}],
                              messages, 1, 0, {}).new,
              LAMBDA new : [i \in 1..Len(new) |-> ContentOnly(new[i][2])])
    ELSE With(SelectSeq(messages, WellFormed),
              LAMBDA given : [i \in 1..Len(given) |->
                                 FormattedMsg(StripOuter(given[i][1]), given[i][2])])

\* utils.llm.get_embedding has no memory: every call of it is a request
RecordInsertTriples ==
    /\ GraphOp(InsertBatch)
    /\ embedding_requests' =
           embedding_requests \o InsertTriplesRequests(last'.args.scene, last'.args.calls)

RecordUpdateConversation ==
    /\ UpdateConversation
    /\ embedding_requests' =
           embedding_requests \o ConversationRequests(Store, last'.args.messages,
                                                      last'.args.previous_conversation)

\* one operation out of a budget of n
Step(A, n) == ops < n /\ GraphOp(A) /\ Unrecorded /\ ops' = ops + 1

\* the ingestion operations: everything but a caller-built Edge given to add_edge
NextIngest ==
    \/ Step(AddCharacter, MaxIngestOps)
    \/ Step(UpdateAppearance, MaxIngestOps)
    \/ Step(RenameCharacter, MaxIngestOps)
    \/ Step(AddHighLevelEdge, MaxIngestOps)
    \/ Step(InsertClipTriples, MaxIngestOps)
    \/ Step(InsertCharacterAppearances, MaxIngestOps)
    \/ Step(CharacterAttributes, MaxIngestOps)

SpecIngest == Init /\ [][NextIngest]_vars

\* the whole mutation API
Next ==
    \/ Step(AddCharacter, MaxOps)
    \/ Step(UpdateAppearance, MaxOps)
    \/ Step(RenameCharacter, MaxOps)
    \/ Step(AddEdge, MaxOps)
    \/ Step(AddHighLevelEdge, MaxOps)
    \/ Step(InsertTriples, MaxOps)
    \/ Step(InsertCharacterAppearances, MaxOps)
    \/ Step(CharacterAttributes, MaxOps)

Spec == Init /\ [][Next]_vars

\* insert_triples list by list, on the graphs add_character and earlier lists
\* leave; only the insert_triples calls count against the budget
NextBatch ==
    \/ (GraphOp(AddCharacter) /\ Unrecorded /\ UNCHANGED ops)
    \/ (GraphOp(UpdateAppearance) /\ Unrecorded /\ UNCHANGED ops)
    \/ Step(InsertBatch, MaxBatchCalls)

SpecBatch == Init /\ [][NextBatch]_vars

\* the conversation store under a sequence of update_conversation calls
NextConversation ==
    /\ ops < MaxConversationOps
    /\ UpdateConversation
    /\ Unrecorded
    /\ ops' = ops + 1

SpecConversation == Init /\ [][NextConversation]_vars

\* one operation of the synthesizer's specification out of its budget
SynthesisStep(A) == ops < MaxSynthesisOps /\ A /\ Unrecorded /\ ops' = ops + 1

\* ingestion of clips followed by the synthesizer: conversations are filled
\* and closed, characters and their appearances come and go
NextSynthesis ==
    \/ SynthesisStep(GraphOp(AddCharacter))
    \/ SynthesisStep(GraphOp(UpdateAppearance))
    \/ SynthesisStep(UpdateConversation)
    \/ SynthesisStep(ExtractConversationSummary)

SpecSynthesis == Init /\ [][NextSynthesis]_vars

\* the connectivity query on the graphs insert_triples builds; only the
\* insert_triples calls count against the budget
NextConnectivity ==
    \/ Step(InsertConnectivityTriples, MaxConnectivityInserts)
    \/ (GraphOp(GetConnectedEdges) /\ Unrecorded /\ UNCHANGED ops)

SpecConnectivity == Init /\ [][NextConnectivity]_vars

\* the searches on the graphs the mutation API builds; only the mutations
\* count against the budget
NextSearch ==
    \/ Step(AddSearchEdge, MaxSearchOps)
    \/ Step(EdgeEmbeddingInsertion, MaxSearchOps)
    \/ (GraphOp(SearchHighLevelEdges) /\ Unrecorded /\ UNCHANGED ops)
    \/ (GraphOp(SearchLowLevelEdges) /\ Unrecorded /\ UNCHANGED ops)

SpecSearch == Init /\ [][NextSearch]_vars

\* the calls that ask for embeddings, with the requests they make
EmbeddingStep(A) == ops < MaxEmbeddingOps /\ A /\ UNCHANGED <<driver, token_usage>> /\ ops' = ops + 1

NextEmbedding ==
    \/ EmbeddingStep(RecordInsertTriples)
    \/ EmbeddingStep(RecordUpdateConversation)

SpecEmbedding == Init /\ [][NextEmbedding]_vars

----------------------------------------------------------------------------
\* Properties of the mutation API, under Spec

Nodes == CharSet(Graph) \cup objects

\* C1: every stored edge has a source that is a key of the character table or
\* of the object table, and so has every target that is not None
ReferentialIntegrity ==
    \A id \in DOMAIN edges :
        /\ edges[id].source \in Nodes
        /\ edges[id].target # NoneName => edges[id].target \in Nodes

\* C1, witness: an appearance-based merge inside insert_triples has renamed
\* <character_1>, the source of a stored edge, to <Alice>
MergedSourceFollowed ==
    /\ last.op = "insert_triples"
    /\ <<"character_1", 1>> \notin CharSet(Graph)
    /\ \E id \in DOMAIN edges :
          edges[id].source = <<"Alice", 1>> /\ edges[id].content = "waves"

\* number of positions of the list s that hold x
Occurrences(s, x) == Cardinality({i \in 1..Len(s) : s[i] = x})

\* C2: the id of every stored edge occurs exactly once in the outgoing list of
\* its source and exactly once in the incoming list of its target (None is a
\* key of the incoming map), and a list kept under a name holds only ids of
\* stored edges whose source (resp. target) is that name
AdjacencyExact ==
    /\ \A id \in DOMAIN edges :
          /\ Occurrences(GetList(adjacency_list_out, edges[id].source), id) = 1
          /\ Occurrences(GetList(adjacency_list_in, edges[id].target), id) = 1
    /\ \A n \in DOMAIN adjacency_list_out : \A id \in SeqToSet(adjacency_list_out[n]) :
          id \in DOMAIN edges /\ edges[id].source = n
    /\ \A n \in DOMAIN adjacency_list_in : \A id \in SeqToSet(adjacency_list_in[n]) :
          id \in DOMAIN edges /\ edges[id].target = n

\* C2, witness: a successful rename to another name has moved a non-empty
\* outgoing list to the new name
RenameMovedAdjacency ==
    /\ last.op = "rename_character" /\ last.ok /\ last.new # last.old
    /\ GetList(adjacency_list_out, last.new) # <<>>

\* no edge has `name` as its source or as its target
Unreferenced(name) ==
    \A id \in DOMAIN edges : edges[id].source # name /\ edges[id].target # name

RenameAllOrNothing ==
    [][last'.op = "rename_character" =>
          /\ ( \/ ~MatchesCharacterPattern(last'.old)
               \/ last'.old \notin CharSet(Graph)
               \/ (last'.new \in CharSet(Graph) /\ last'.new # last'.old) ) => ~last'.ok
          /\ ~last'.ok =>
                UNCHANGED <<characters, edges, adjacency_list_out, adjacency_list_in>>]_vars

\* C4, witness: a rename refused because the new name is another character,
\* in a graph that has edges
RenameCollisionRefused ==
    /\ last.op = "rename_character" /\ ~last.ok
    /\ last.old \in CharSet(Graph) /\ last.new \in CharSet(Graph) /\ last.new # last.old
    /\ edges # <<>>

\* C7: add_edge(e) raises exactly when e.source is not a node or e.target is
\* neither None nor a node; when it raises, the edges and both adjacency maps
\* are unchanged; otherwise e is stored under e.id, the other edges are as
\* before and e.id is appended to the outgoing list of e.source and to the
\* incoming list of e.target (None being a key)
AddEdgeChecksEndpoints ==
    [][last'.op = "add_edge" =>
          LET e == last'.edge
              known == /\ e.source \in Nodes
                       /\ e.target = NoneName \/ e.target \in Nodes
          IN /\ last'.ok = known
             /\ ~known => UNCHANGED <<edges, adjacency_list_out, adjacency_list_in>>
             /\ known =>
                   /\ DOMAIN edges' = DOMAIN edges \cup {e.id}
                   /\ edges'[e.id] = e
                   /\ \A id \in DOMAIN edges \ {e.id} : edges'[id] = edges[id]
                   /\ adjacency_list_out'[e.source] =
                         Append(GetList(adjacency_list_out, e.source), e.id)
                   /\ adjacency_list_in'[e.target] =
                         Append(GetList(adjacency_list_in, e.target), e.id)]_vars

\* C7, witness: add_edge has raised on an unknown target in a graph that
\* already holds an edge
UnknownTargetRefused ==
    /\ last.op = "add_edge" /\ ~last.ok
    /\ last.edge.source \in Nodes /\ last.edge.target \notin Nodes \cup {NoneName}
    /\ edges # <<>>

----------------------------------------------------------------------------
\* Properties of ingestion, under SpecIngest

\* an edge _find_existing_high_level_edge and the high-level search accept
IsHighLevel(edge) == edge.clip_id = 0 /\ edge.scene = NoneStr

SameTriple(a, b) == a.source = b.source /\ a.content = b.content /\ a.target = b.target

\* C5: no two stored edges with clip_id = 0 and scene None have the same
\* (source, content, target)
HighLevelUnique ==
    \A i, j \in DOMAIN edges :
        (i # j /\ IsHighLevel(edges[i]) /\ IsHighLevel(edges[j]))
            => ~SameTriple(edges[i], edges[j])

\* C5, witness: add_high_level_edge was given an edge whose triple was already
\* stored at clip 0, and has not stored it
DuplicateAbsorbed ==
    /\ last.op = "add_high_level_edge" /\ last.ok
    /\ last.edge.id \notin DOMAIN edges
    /\ \E id \in DOMAIN edges : IsHighLevel(edges[id]) /\ SameTriple(edges[id], last.edge)

\* C6: the confidence of every edge add_high_level_edge has been called for
\* is the highest confidence those calls carried (None below every number);
\* and a call whose confidence is not strictly higher than that of the stored
\* edge of the same triple returns None and leaves the edges, their
\* confidences and both adjacency maps unchanged
ConfidenceIsMaxAsserted ==
    [][/\ \A id \in DOMAIN asserted' :
             id \in DOMAIN edges' /\ edges'[id].confidence = asserted'[id]
       /\ last'.op = "add_high_level_edge" =>
             \A id \in DOMAIN edges :
                 ( /\ IsHighLevel(edges[id])
                   /\ SameTriple(edges[id], last'.edge)
                   /\ ~(last'.edge.confidence > edges[id].confidence) )
                 => /\ last'.ret = NoneNum
                    /\ UNCHANGED <<edges, adjacency_list_out, adjacency_list_in>>]_vars

\* C6, witness: three Edges were built, the single stored one has confidence
\* 80 and the last call, with 70, has returned None
LowerConfidenceIgnored ==
    /\ last.op = "add_high_level_edge" /\ last.ok /\ last.ret = NoneNum
    /\ last.edge.confidence = 70
    /\ id_counter = 3 /\ DOMAIN edges = {1}
    /\ edges[1].confidence = 80 /\ asserted[1] = 80

\* C10 as stated: every stored edge has (clip_id = 0 and scene None) or
\* (clip_id > 0 and scene not None)
EdgeClassification ==
    \A id \in DOMAIN edges :
        \/ edges[id].clip_id = 0 /\ edges[id].scene = NoneStr
        \/ edges[id].clip_id > 0 /\ edges[id].scene # NoneStr

----------------------------------------------------------------------------
\* Properties of one insert_triples call, under SpecBatch

\* C8 as stated: no two of the edges one insert_triples call has created have
\* the same (source, target, content) in the graph when the call returns
BatchCreatesNoDuplicates ==
    last.op = "insert_triples" =>
        \A i, j \in last.created :
            i # j => ~SameTriple(edges[i], edges[j])

\* C9 as stated: when the embedding provider fails while the edge of one
\* triple is built, every later triple of the list that is inserted when the
\* provider answers is inserted all the same
BatchIsolatesEmbeddingFailure ==
    (last.op = "insert_triples" /\ last.failed_at # 0) =>
        \A i \in last.would : i > last.failed_at => i \in last.inserted

----------------------------------------------------------------------------
\* Properties of the conversation store, under SpecConversation

\* the (speaker, content) pairs of a list of messages, in order
Pairs(messages) == [i \in 1..Len(messages) |-> <<messages[i][1], messages[i][2]>>]

\* C11: after any sequence of update_conversation calls no conversation holds
\* two messages with the same (speaker, content) pair (the messages it keeps
\* stand in the order of their first insertion)
MessagesDeduplicated ==
    \A id \in DOMAIN conversations :
       \A i, j \in 1..Len(conversations[id].messages) :
          i # j => Pairs(conversations[id].messages)[i] # Pairs(conversations[id].messages)[j]

\* C12: the speakers of a conversation are exactly the speakers of its stored
\* messages, and its clip list holds the clip id of every stored message
SpeakersAndClipsExact ==
    \A id \in DOMAIN conversations :
       /\ conversations[id].speakers =
              {conversations[id].messages[i][1] : i \in 1..Len(conversations[id].messages)}
       /\ {conversations[id].messages[i][3] : i \in 1..Len(conversations[id].messages)}
              \subseteq SeqToSet(conversations[id].clips)

\* C12, witness: a continuation from a second clip brought a message of a
\* second speaker into the active conversation
SecondClipSecondSpeaker ==
    /\ last.op = "update_conversation"
    /\ last.args.previous_conversation
    /\ last.ret = current_conversation_id
    /\ last.ret \in DOMAIN conversations
    /\ conversations[last.ret].clips = <<1, 2>>
    /\ Cardinality(conversations[last.ret].speakers) = 2
    /\ \E i \in 1..Len(conversations[last.ret].messages) :
          conversations[last.ret].messages[i][3] = 2

\* the well-formed messages of an argument list, as pairs in order
GivenPairs(messages) == Pairs(SelectSeq(messages, WellFormed))

\* `after` is `before` with messages of `given` appended: nothing kept is lost
\* or moved, what is added comes from `given` with the clip id, and every
\* message of `given` is there afterwards
AppendedTo(before, after, given, clip_id) ==
    /\ Len(after) >= Len(before)
    /\ SubSeq(after, 1, Len(before)) = before
    /\ \A i \in (Len(before) + 1)..Len(after) :
          /\ Pairs(after)[i] \in SeqToSet(GivenPairs(given))
          /\ after[i][3] = clip_id
    /\ SeqToSet(GivenPairs(given)) \subseteq SeqToSet(Pairs(after))

\* C13: a call of update_conversation with a non-empty list appends to the
\* active conversation, adds the clip id to it and creates nothing when it is
\* a continuation and an active conversation exists; otherwise it creates a
\* conversation that holds the messages and makes it the active one
UpdateConversationRouting ==
    [][(last'.op = "update_conversation" /\ last'.args.messages # <<>>) =>
         IF last'.args.previous_conversation /\ current_conversation_id \in DOMAIN conversations
         THEN /\ DOMAIN conversations' = DOMAIN conversations
              /\ current_conversation_id' = current_conversation_id
              /\ last'.ret = current_conversation_id
              /\ \A id \in DOMAIN conversations \ {current_conversation_id} :
                    conversations'[id] = conversations[id]
              /\ AppendedTo(conversations[current_conversation_id].messages,
                            conversations'[current_conversation_id].messages,
                            last'.args.messages, last'.args.clip_id)
              /\ last'.args.clip_id \in SeqToSet(conversations'[current_conversation_id].clips)
         ELSE /\ last'.ret \notin DOMAIN conversations
              /\ DOMAIN conversations' = DOMAIN conversations \cup {last'.ret}
              /\ current_conversation_id' = last'.ret
              /\ \A id \in DOMAIN conversations : conversations'[id] = conversations[id]
              /\ Pairs(conversations'[last'.ret].messages) = GivenPairs(last'.args.messages)
              /\ conversations'[last'.ret].clips = <<last'.args.clip_id>>
      ]_vars

\* C13, witness: with conversation 1 active, a continuation was appended to it
\* and no conversation was created
ContinuationAppended ==
    /\ last.op = "update_conversation"
    /\ last.args.previous_conversation
    /\ last.args.messages # <<>>
    /\ ops = 2
    /\ DOMAIN conversations = {1}
    /\ current_conversation_id = 1
    /\ Len(conversations[1].messages) >= 2
    /\ conversations[1].messages[Len(conversations[1].messages)][3] = last.args.clip_id

----------------------------------------------------------------------------
\* Properties of the synthesizer, under SpecSynthesis

\* the response the method works with after its retry
NetResponse(args) == WithRetry(args.first, args.second).response

\* the text model answered a closed conversation with a JSON object
SummaryAnswered(args) ==
    /\ NetResponse(args).type = "tuple"
    /\ NetResponse(args).content.json.valid

\* C14: each [character_id, character_name] of the answer's name_equivalences
\* is given to rename_character; the pairs whose rename succeeded are returned
\* as renamed_characters, and the driver moves their appearance entries to the
\* new key
NameEquivalencesApplied ==
    [][(/\ last'.op = "extract_conversation_summary"
        /\ conversations[last'.args.conversation_id].messages # <<>>
        /\ SummaryAnswered(last'.args)) =>
         \A i \in 1..Len(NetResponse(last'.args).content.json.name_equivalences) :
            \E pair \in {NetResponse(last'.args).content.json.name_equivalences[i]} :
               rename_character(Graph, pair[1], pair[2]).ok =>
                  /\ last'.ok
                  /\ EnsureBrackets(pair[2]) \in SeqToSet(characters')
                  /\ pair \in SeqToSet(DictGet(last'.args.result, "renamed_characters", <<>>))
                  /\ (pair[1] \in DOMAIN character_appearance =>
                         /\ pair[1] \notin DOMAIN character_appearance'
                         /\ pair[2] \in DOMAIN character_appearance')
      ]_vars

\* C19: a failed call of the text model is retried exactly once; when the
\* retry fails too, or the answer cannot be parsed as JSON, the method returns
\* its empty result and the graph and the conversation summaries are unchanged
SynthesizerFailsSoft ==
    [][(/\ last'.op = "extract_conversation_summary"
        /\ conversations[last'.args.conversation_id].messages # <<>>) =>
         /\ last'.args.calls = IF last'.args.first.type = "raise" THEN 2 ELSE 1
         /\ ~SummaryAnswered(last'.args) =>
               /\ last'.ok
               /\ last'.args.result = EmptyResult
               /\ UNCHANGED <<characters, objects, edges, adjacency_list_out,
                              adjacency_list_in, conversations>>
      ]_vars

----------------------------------------------------------------------------
\* Properties of the embedding service, under SpecEmbedding

\* C15: within one process the embedding provider is called at most once for
\* each distinct text
ProviderCalledOncePerText ==
    \A i, j \in 1..Len(embedding_requests) :
       i # j => embedding_requests[i] # embedding_requests[j]

----------------------------------------------------------------------------
\* Properties of the connectivity query, under SpecConnectivity

\* the edge joins a and b: {source, target} = {a, b}
Joins(edge, a, b) == {edge.source, edge.target} = {a, b}

\* ids of the edges whose {source, target} = {c1, c2}
DirectEdges(c1, c2) == {id \in DOMAIN edges : Joins(edges[id], c1, c2)}

\* ids of the edges of the pairs e1, e2 through an object, at most three clips apart
IndirectEdges(c1, c2) ==
    UNION {{id1, id2} : <<id1, id2>> \in
              {pair \in (DOMAIN edges) \X (DOMAIN edges) :
                  \E o \in objects :
                     /\ Joins(edges[pair[1]], c1, o)
                     /\ Joins(edges[pair[2]], o, c2)
                     /\ AbsDiff(edges[pair[1]].clip_id, edges[pair[2]].clip_id) < 4}}

\* C16: for existing characters c1 and c2, c1 = c2 included,
\* get_connected_edges returns each edge at most once and exactly the edges
\* that join c1 and c2 plus the pairs through an object whose clips differ by
\* less than 4; it fails when a character does not exist
ConnectedEdgesExact ==
    last.op = "get_connected_edges" =>
       IF {last.args.character1, last.args.character2} \subseteq SeqToSet(characters)
       THEN /\ last.ok
            /\ \A i, j \in 1..Len(last.args.edges) :
                  i # j => last.args.edges[i] # last.args.edges[j]
            /\ SeqToSet(last.args.edges) =
                  DirectEdges(last.args.character1, last.args.character2)
                  \cup IndirectEdges(last.args.character1, last.args.character2)
       ELSE ~last.ok

----------------------------------------------------------------------------
\* Properties of the searches, under SpecSearch

\* a is before b in the order (score descending, edge id ascending); a and b
\* are <<score, id>>
Precedes(a, b) == a[1] > b[1] \/ (a[1] = b[1] /\ a[2] < b[2])

\* the scored candidate of a returned edge id
ScoredOf(args, id) == CHOOSE pair \in SeqToSet(args.scored) : pair[2] = id

NullEmbeddingExactMatch ==
    (last.op \in {"search_high_level_edges", "search_low_level_edges"} /\ last.ok) =>
       \A pair \in SeqToSet(last.args.scored) :
          \A i \in 1..Len(last.args.query_triples) :
             \E q \in {last.args.query_triples[i]} :
                (/\ edges[pair[2]].embedding = NoneEmb
                 /\ ContentGiven(q[2])
                 /\ q[2] = edges[pair[2]].content) =>
                   ContentTerm(edges[pair[2]], q[2], QueryEmbeddings(q)[2], WeightOr1(q[5]))
                      = 1000 * WeightOr1(q[5])

----------------------------------------------------------------------------
\* Conversation context (HeteroGraph.get_conversation_messages_with_context)

\* the longest conversation the context is rendered from
MaxContextMessages == 10

\* one entry of the list search_conversations() returns
Hit(conv_id, msg_idx) == [conversation_id |-> conv_id, message_index |-> msg_idx]

\* conv_id is None or msg_idx is None: the result is skipped
HitSkipped(result) ==
    result.conversation_id = NoneNum \/ result.message_index = NoneNum

\* the keys of conversation_indices, in the order of their first result
RECURSIVE GroupKeysFrom(_, _, _)
GroupKeysFrom(search_results, i, keys) ==
    IF i > Len(search_results) THEN keys
    ELSE IF HitSkipped(search_results[i])
            \/ search_results[i].conversation_id \in SeqToSet(keys)
         THEN GroupKeysFrom(search_results, i + 1, keys)
         ELSE GroupKeysFrom(search_results, i + 1,
                            Append(keys, search_results[i].conversation_id))

\* conversation_indices[conv_id]: the message indices in result order
RECURSIVE MessageIndicesFrom(_, _, _, _)
MessageIndicesFrom(search_results, conv_id, i, indices) ==
    IF i > Len(search_results) THEN indices
    ELSE IF ~HitSkipped(search_results[i])
            /\ search_results[i].conversation_id = conv_id
         THEN MessageIndicesFrom(search_results, conv_id, i + 1,
                                 Append(indices, search_results[i].message_index))
         ELSE MessageIndicesFrom(search_results, conv_id, i + 1, indices)

\* a range that stops one message early
RangeWithoutEnd(msg_idx, context_window, len) ==
    << IF msg_idx - context_window > 0 THEN msg_idx - context_window ELSE 0,
       IF msg_idx + context_window < len THEN msg_idx + context_window ELSE len >>

\* (max(0, msg_idx - context_window), min(len(messages), msg_idx + context_window + 1))
RangeOf(msg_idx, context_window, len) ==
    << IF msg_idx - context_window > 0 THEN msg_idx - context_window ELSE 0,
       IF msg_idx + context_window + 1 < len THEN msg_idx + context_window + 1 ELSE len >>

\* the ranges of the matched messages, in result order
Ranges(message_indices, context_window, len) ==
    [i \in 1..Len(message_indices) |-> RangeOf(message_indices[i], context_window, len)]

\* one step of the stable sort by start index
RECURSIVE InsertByStart(_, _)
InsertByStart(sorted, range) ==
    IF sorted = <<>> THEN <<range>>
    ELSE IF sorted[Len(sorted)][1] <= range[1] THEN Append(sorted, range)
    ELSE Append(InsertByStart(SubSeq(sorted, 1, Len(sorted) - 1), range),
                sorted[Len(sorted)])

\* ranges.sort(key=lambda x: x[0])
RECURSIVE SortByStartFrom(_, _, _)
SortByStartFrom(sorted, ranges, i) ==
    IF i > Len(ranges) THEN sorted
    ELSE SortByStartFrom(InsertByStart(sorted, ranges[i]), ranges, i + 1)

SortByStart(ranges) == SortByStartFrom(<<>>, ranges, 1)

\* the merge loop over ranges[1:], with (merged_start, merged_end) in merged
RECURSIVE MergeFrom(_, _, _, _)
MergeFrom(ranges, i, merged, merged_ranges) ==
    IF i > Len(ranges) THEN Append(merged_ranges, merged)
    ELSE IF ranges[i][1] <= merged[2]
         THEN MergeFrom(ranges, i + 1,
                        << merged[1],
                           IF merged[2] >= ranges[i][2] THEN merged[2] ELSE ranges[i][2] >>,
                        merged_ranges)
         ELSE MergeFrom(ranges, i + 1, ranges[i], Append(merged_ranges, merged))

\* merged_ranges
MergedRanges(ranges) ==
    IF ranges = <<>> THEN <<>> ELSE MergeFrom(ranges, 2, ranges[1], <<>>)

\* all_message_indices: the union of range(start, end) over the merged ranges
AllMessageIndices(merged_ranges) ==
    UNION {merged_ranges[i][1]..(merged_ranges[i][2] - 1) : i \in 1..Len(merged_ranges)}

\* sorted(all_message_indices)
RECURSIVE Sorted(_)
Sorted(S) ==
    IF S = {} THEN <<>> ELSE <<MinOf(S)>> \o Sorted(S \ {MinOf(S)})

\* f"[{clip_id}] {speaker_name}: {content}", or f"{speaker_name}: {content}"
\* when the message has no clip id
MessageLine(msg) ==
    [clip_id |-> IF Len(msg) >= 3 THEN msg[3] ELSE NoneNum,
     speaker_name |-> StripOuter(msg[1]),
     content |-> msg[2]]

\* message_lines: the lines of the messages at sorted_indices
RECURSIVE MessageLinesFrom(_, _, _, _)
MessageLinesFrom(messages, sorted_indices, i, message_lines) ==
    IF i > Len(sorted_indices) THEN message_lines
    ELSE IF sorted_indices[i] < Len(messages)
            /\ Len(messages[sorted_indices[i] + 1]) >= 2
         THEN MessageLinesFrom(messages, sorted_indices, i + 1,
                  Append(message_lines, MessageLine(messages[sorted_indices[i] + 1])))
         ELSE MessageLinesFrom(messages, sorted_indices, i + 1, message_lines)

\* f"Conversation {conv_id}: {summary}\n" + lines, or f"Conversation {conv_id}:\n"
\* + lines when the summary is empty
ConversationText(conv_id, summary, message_lines) ==
    [header |-> IF summary # "" THEN <<conv_id, summary>> ELSE <<conv_id>>,
     lines |-> message_lines]

\* the lines of one conversation of conversation_indices
ContextLines(conversation, message_indices, context_window) ==
    MessageLinesFrom(conversation.messages,
        Sorted(AllMessageIndices(MergedRanges(SortByStart(
            Ranges(message_indices, context_window, Len(conversation.messages)))))),
        1, <<>>)

\* the loop over conversation_indices.items()
RECURSIVE FormattedConversationsFrom(_, _, _, _, _, _)
FormattedConversationsFrom(convs, search_results, context_window, keys, i, formatted) ==
    IF i > Len(keys) THEN formatted
    ELSE IF keys[i] \notin DOMAIN convs
         THEN FormattedConversationsFrom(convs, search_results, context_window,
                                         keys, i + 1, formatted)
    ELSE IF convs[keys[i]].messages = <<>>
         THEN FormattedConversationsFrom(convs, search_results, context_window,
                                         keys, i + 1, formatted)
    ELSE With(ContextLines(convs[keys[i]],
                           MessageIndicesFrom(search_results, keys[i], 1, <<>>),
                           context_window),
              LAMBDA message_lines :
                 FormattedConversationsFrom(convs, search_results, context_window,
                     keys, i + 1,
                     IF message_lines # <<>>
                     THEN Append(formatted,
                                 ConversationText(keys[i], convs[keys[i]].summary,
                                                  message_lines))
                     ELSE formatted))

\* HeteroGraph.get_conversation_messages_with_context: the conversation texts
\* that are joined with a blank line, <<>> for ""
get_conversation_messages_with_context(convs, search_results, context_window) ==
    IF search_results = <<>> THEN <<>>
    ELSE FormattedConversationsFrom(convs, search_results, context_window,
                                    GroupKeysFrom(search_results, 1, <<>>), 1, <<>>)

\* the text of the i-th message of a conversation
ContentAt(i) == ToString(i)

\* the message update_conversation stores for the i-th line of a clip
StoredMessage(i, clip_id) ==
    << IF i % 2 = 0 THEN <<"Alice", 1>> ELSE <<"robot", 0>>, ContentAt(i), clip_id,
       Embedding(ContentOnly(ContentAt(i))) >>

\* summaries a conversation carries: none, or one
ContextSummaries == {"", "a greeting"}

\* the conversation ids results name: the stored one and an unknown one
ContextConversationIds == {1, 2}

\* the windows asked for
ContextWindows == {0, 1, 2}

\* the result lists: up to two hits on messages of the stored conversation
HitLists(len) ==
    LET hits == {Hit(c, i) : c \in ContextConversationIds, i \in 0..(len - 1)}
    IN {<<>>} \cup {<<h>> : h \in hits} \cup {<<h1, h2>> : h1 \in hits, h2 \in hits}

\* a graph that holds one conversation of n messages from clip 1
InitContext ==
    /\ characters = NewGraph.characters
    /\ objects = NewGraph.objects
    /\ edges = NewGraph.edges
    /\ adjacency_list_out = NewGraph.out
    /\ adjacency_list_in = NewGraph.in
    /\ id_counter = 0
    /\ character_appearance = <<>>
    /\ \E n \in 1..MaxContextMessages, summary \in ContextSummaries :
          conversations =
              (1 :> [Conversation(1, 1, [i \in 1..n |-> StoredMessage(i - 1, 1)])
                        EXCEPT !.summary = summary])
    /\ current_conversation_id = 1
    /\ conversation_id_counter = 1
    /\ embedding_requests = <<>>
    /\ driver = NoDriver
    /\ token_usage = NoUsage
    /\ asserted = <<>>
    /\ last = NoLast
    /\ ops = 0

\* get_conversation_messages_with_context(search_results, context_window),
\* called once on the graph
GetConversationMessagesWithContext ==
    \E context_window \in ContextWindows,
       search_results \in HitLists(Len(conversations[1].messages)) :
       /\ last.op = "init"
       /\ last' = [NoLast EXCEPT
                      !.op = "get_conversation_messages_with_context",
                      !.args = [search_results |-> search_results,
                                context_window |-> context_window],
                      !.ret = get_conversation_messages_with_context(
                                  conversations, search_results, context_window)]
       /\ UNCHANGED <<graphVars, conversationVars, embedding_requests, driver, token_usage, ops>>

NextContext == GetConversationMessagesWithContext

SpecContext == InitContext /\ [][NextContext]_vars

----------------------------------------------------------------------------
\* C18

\* the message indices of the results that name a conversation
HitsOn(search_results, conv_id) ==
    {search_results[i].message_index :
        i \in {j \in 1..Len(search_results) : search_results[j].conversation_id = conv_id}}

\* the union over hits i of [max(0, i - w), min(len, i + w + 1))
WindowUnion(hits, w, len) ==
    {idx \in 0..(len - 1) : \E i \in hits : i - w <= idx /\ idx <= i + w}

\* the text rendered for a conversation, <<>> when there is none
TextsOf(ret, conv_id) == SelectSeq(ret, LAMBDA text : text.header[1] = conv_id)

\* C18: for every stored conversation with hits and every window w, the
\* context holds one text for it: a header with the conversation id, and the
\* summary when there is one, then the messages whose index lies in the union
\* over hits i of [max(0, i - w), min(len, i + w + 1)), once each, ascending
ContextWindowsMerged ==
    last.op = "get_conversation_messages_with_context" =>
       \A conv_id \in DOMAIN conversations :
          LET conversation == conversations[conv_id]
              hits == HitsOn(last.args.search_results, conv_id)
              indices == Sorted(WindowUnion(hits, last.args.context_window,
                                            Len(conversation.messages)))
              texts == TextsOf(last.ret, conv_id)
          IN IF hits = {} THEN texts = <<>>
             ELSE /\ Len(texts) = 1
                  /\ texts[1].header =
                        IF conversation.summary # ""
                        THEN <<conv_id, conversation.summary>> ELSE <<conv_id>>
                  /\ texts[1].lines =
                        [k \in 1..Len(indices) |->
                            MessageLine(conversation.messages[indices[k] + 1])]

\* C18, witness: hits at 2 and 4 with w = 2 in a 10-message conversation that
\* has a summary gave the summary header and the messages 0..6
HitsTwoAndFourMerged ==
    /\ last.op = "get_conversation_messages_with_context"
    /\ Len(conversations[1].messages) = 10
    /\ conversations[1].summary # ""
    /\ last.args.search_results = <<Hit(1, 2), Hit(1, 4)>>
    /\ last.args.context_window = 2
    /\ Len(last.ret) = 1
    /\ last.ret[1].header = <<1, conversations[1].summary>>
    /\ last.ret[1].lines =
          [k \in 1..7 |-> MessageLine(conversations[1].messages[k])]

----------------------------------------------------------------------------
\* The driver: process_full_video
\*
\* The name of a frame folder is the sequence of its decimal digits.  A line
\* of characters_behavior is a record: equivalence says whether it starts
\* with "Equivalence:", parts are the comma-separated names after the colon.

\* int(Path(folder).name)
RECURSIVE IntOf(_)
IntOf(name) ==
    IF name = <<>> THEN 0
    ELSE 10 * IntOf(SubSeq(name, 1, Len(name) - 1)) + name[Len(name)]

\* the folders found under frames_dir: "1", "2" and "10"
ClipFolders == {<<1>>, <<2>>, <<1, 0>>}

\* sorted([...frames_dir.iterdir()...], key=lambda x: int(Path(x).name))
image_folders(folders) ==
    With(Sorted({IntOf(f) : f \in folders}),
         LAMBDA ids : [k \in 1..Len(ids) |-> CHOOSE f \in folders : IntOf(f) = ids[k]])

\* the local state of one pass of the loop body; raised is an exception that
\* reached the except of the loop, stored the entry of episodic_memory,
\* summarized the ids extract_conversation_summary was called with so far
ClipStart ==
    [g |-> Graph, counter |-> id_counter, hits |-> {}, app |-> character_appearance,
     store |-> Store, previous_conversation |-> driver.previous_conversation,
     summarized |-> driver.summarized, raised |-> FALSE, stored |-> FALSE]

\* an exception leaves the try block
ClipFailed(cs) == [cs EXCEPT !.raised = TRUE]

\* the loop without its except: an exception ends the run
AbortRun(d, clip_id, r) ==
    IF r.raised THEN [d EXCEPT !.pc = "aborted", !.attempted = Append(d.attempted, clip_id),
                               !.summarized = r.summarized]
    ELSE [d EXCEPT !.next = d.next + 1,
                   !.summarized = r.summarized,
                   !.attempted = Append(d.attempted, clip_id),
                   !.previous_conversation = r.previous_conversation,
                   !.episodic_memory = d.episodic_memory \cup {clip_id}]

\* the two attempts of the episodic-memory call: an attempt raises when
\* get_response fails twice, and the second parse failure is a ValueError
EpisodicNet(first, second) ==
    IF first.type # "invalid" THEN first
    ELSE IF second.type # "invalid" THEN second
    ELSE [type |-> "raise"]

\* behaviors[0] is an equivalence line with both names
HasEquivalence(behaviors) ==
    /\ behaviors # <<>>
    /\ behaviors[1].equivalence
    /\ Len(behaviors[1].parts) >= 2

\* graph.rename_character(equivalence_parts[0].strip(), equivalence_parts[1].strip())
RenameEquivalence(cs, behaviors) ==
    IF HasEquivalence(behaviors)
    THEN [cs EXCEPT !.g = rename_character(cs.g, behaviors[1].parts[1],
                                           behaviors[1].parts[2]).g]
    ELSE cs

\* behaviors = behaviors[1:]
RemainingBehaviors(behaviors) ==
    IF HasEquivalence(behaviors) THEN SubSeq(behaviors, 2, Len(behaviors)) ELSE behaviors

\* character_appearance.update(new_character_appearance)
MergeAppearance(cs, new_character_appearance) ==
    [cs EXCEPT !.app = new_character_appearance @@ cs.app]

\* the summary of the conversation that ended, in its own try/except
CloseEnded(cs, conversation, first, second) ==
    IF cs.previous_conversation /\ conversation = <<>> /\ cs.store.current # NoneNum
    THEN With(CloseConversation(cs.g, cs.counter, cs.store.conversations, cs.app,
                                cs.store.current, first, second),
              LAMBDA r :
                [cs EXCEPT !.g = r.g, !.counter = r.counter,
                           !.hits = cs.hits \cup r.hits,
                           !.store = [conversations |-> r.conversations,
                                      current |-> cs.store.current,
                                      counter |-> cs.store.counter],
                           !.app = r.app,
                           !.summarized = Append(cs.summarized, cs.store.current)])
    ELSE cs

\* speaker_name.startswith raises AttributeError on a speaker that is not a
\* str, in the branch of update_conversation that creates a conversation
UpdateRaises(cs, conversation) ==
    /\ ~Continues(cs.store, cs.previous_conversation)
    /\ \E i \in 1..Len(conversation) :
          WellFormed(conversation[i]) /\ conversation[i][1] = NoneName

\* the conversation step without `else: previous_conversation = False`
UpdateKeepsOpen(cs, clip_id, conversation) ==
    IF conversation = <<>> THEN cs
    ELSE IF UpdateRaises(cs, conversation) THEN ClipFailed(cs)
    ELSE [cs EXCEPT !.store = update_conversation(cs.store, clip_id, conversation,
                                                  cs.previous_conversation, {}).st,
                    !.previous_conversation = TRUE]

\* if len(conversation) > 0: graph.update_conversation(...); previous_conversation = True
\* else: previous_conversation = False
UpdateStep(cs, clip_id, conversation) ==
    IF conversation = <<>> THEN [cs EXCEPT !.previous_conversation = FALSE]
    ELSE IF UpdateRaises(cs, conversation) THEN ClipFailed(cs)
    ELSE [cs EXCEPT !.store = update_conversation(cs.store, clip_id, conversation,
                                                  cs.previous_conversation, {}).st,
                    !.previous_conversation = TRUE]

\* utils.general.parse_json_with_repair(text, expect_dict=False): text.strip()
\* raises on a value that is not a str (ok = FALSE); a text that is not JSON
\* gives an error, and the driver takes the empty list
ParseTriples(triples_response) ==
    IF ~strip_code_fences(triples_response).ok THEN [ok |-> FALSE, triples |-> <<>>]
    ELSE IF triples_response.json = Unparseable THEN [ok |-> TRUE, triples |-> <<>>]
    ELSE [ok |-> TRUE, triples |-> triples_response.json]

\* the triples of the clip: none without behaviors, else the answer of the
\* text model, asked again once if the call raised
ExtractTriples(behaviors, first, second) ==
    IF behaviors = <<>> THEN [ok |-> TRUE, triples |-> <<>>]
    ELSE IF WithRetry(first, second).response.type = "raise"
         THEN [ok |-> FALSE, triples |-> <<>>]
         ELSE ParseTriples(WithRetry(first, second).response)

\* graph.insert_triples(triples, clip_id, scene, character_appearance) and the
\* entry of episodic_memory after it
TriplesStep(cs, clip_id, scene, behaviors, first, second) ==
    IF ~ExtractTriples(behaviors, first, second).ok THEN ClipFailed(cs)
    ELSE With(insert_triples(cs.g, cs.app, cs.counter,
                             ExtractTriples(behaviors, first, second).triples,
                             clip_id, scene, {}, 0),
              LAMBDA r : [cs EXCEPT !.g = r.g, !.app = r.app, !.counter = r.counter,
                                    !.raised = r.raised, !.stored = ~r.raised])

\* the steps of the loop body after the episodic answer was parsed; answers
\* holds the outcomes of the calls of the text model: two for the summary,
\* two for the triples
AfterEpisodic(cs, clip_id, response_dict, answers) ==
    With(UpdateStep(CloseEnded(MergeAppearance(RenameEquivalence(cs, response_dict.behaviors),
                                               response_dict.character_appearance),
                               response_dict.conversation,
                               answers.summary_first, answers.summary_second),
                    clip_id, response_dict.conversation),
         LAMBDA updated :
            IF updated.raised THEN updated
            ELSE TriplesStep(updated, clip_id, response_dict.scene,
                             RemainingBehaviors(response_dict.behaviors),
                             answers.triples_first, answers.triples_second))

\* the body of `for folder in image_folders`
process_clip(cs, clip_id, episodic, answers) ==
    IF episodic.type # "dict" THEN ClipFailed(cs)
    ELSE AfterEpisodic(cs, clip_id, episodic, answers)

\* the end of one pass: the entry of episodic_memory, or the except that
\* prints and continues; either way the loop goes on to the next folder
NextFolder(d, clip_id, r) ==
    [d EXCEPT !.next = d.next + 1,
              !.attempted = Append(d.attempted, clip_id),
              !.failed = IF r.raised THEN d.failed \cup {clip_id} ELSE d.failed,
              !.previous_conversation = r.previous_conversation,
              !.summarized = r.summarized,
              !.episodic_memory = IF r.stored THEN d.episodic_memory \cup {clip_id}
                                  ELSE d.episodic_memory]

\* HeteroGraph.node_embedding_insertion: the nodes have no embedding
\* attribute, so the first node read raises AttributeError (ok = FALSE)
node_embedding_insertion(g) ==
    [g |-> g, ok |-> g.characters = <<>> /\ g.objects = {}]

\* try: graph.node_embedding_insertion(); graph.edge_embedding_insertion()
\* except Exception: ...
InsertEmbeddings(g) ==
    IF node_embedding_insertion(g).ok THEN edge_embedding_insertion(g) ELSE g

\* HeteroGraph.get_node_degrees: reading the defaultdicts creates the keys
\* that one of them lacks
get_node_degrees(g) ==
    With(DOMAIN g.out \cup DOMAIN g.in,
         LAMBDA all_nodes :
            [g |-> [characters |-> g.characters, objects |-> g.objects, edges |-> g.edges,
                    out |-> [n \in all_nodes |-> GetList(g.out, n)],
                    in |-> [n \in all_nodes |-> GetList(g.in, n)]],
             degrees |-> [n \in all_nodes |->
                             Len(GetList(g.out, n)) + Len(GetList(g.in, n))]])

\* a character is summarised when its degree is greater than 10
DegreeThreshold == 10

\* [character for character in graph.characters if degrees.get(character, 0) > 10]
SelectedCharacters(g, degrees) ==
    SelectSeq(g.characters, LAMBDA character : DictGet(degrees, character, 0) > DegreeThreshold)

\* for character in characters: try: graph.character_attributes(character)
RECURSIVE AttributesFrom(_, _, _, _)
AttributesFrom(st, selected, i, response) ==
    IF i > Len(selected) THEN st
    ELSE With(character_attributes(st.g, st.counter, selected[i], response),
              LAMBDA r : AttributesFrom([g |-> r.g, counter |-> r.counter,
                                         hits |-> st.hits \cup r.hits],
                                        selected, i + 1, response))

\* the loop of character_relationships over relationships_list
RECURSIVE RelationEdges(_, _, _, _, _)
RelationEdges(st, character1, character2, relationships_list, i) ==
    IF i > Len(relationships_list) THEN st
    ELSE IF Len(relationships_list[i]) < 4 \/ ConfidenceTooLow(relationships_list[i][4])
    THEN RelationEdges(st, character1, character2, relationships_list, i + 1)
    ELSE IF {<<EnsureBrackets(relationships_list[i][1]), EnsureBrackets(relationships_list[i][3])>>}
            \cap {<<character1, character2>>, <<character2, character1>>} = {}
    THEN RelationEdges(st, character1, character2, relationships_list, i + 1)
    ELSE RelationEdges(
             AddSynthesized(st, Edge(st.counter, 0,
                                     EnsureBrackets(relationships_list[i][1]),
                                     EnsureBrackets(relationships_list[i][3]),
                                     relationships_list[i][2], NoneStr,
                                     relationships_list[i][4], NoneEmb)),
             character1, character2, relationships_list, i + 1)

\* the part of character_relationships after the connected edges were found
UseRelationshipsResponse(st, character1, character2, response) ==
    IF response.type = "raise" THEN [st EXCEPT !.ok = FALSE]
    ELSE IF ~strip_code_fences(response).ok THEN [st EXCEPT !.ok = FALSE]
    ELSE IF response.json = Unparseable THEN st
    ELSE With(RelationEdges([g |-> st.g, counter |-> st.counter, hits |-> {}],
                            character1, character2, response.json, 1),
              LAMBDA r : [g |-> r.g, counter |-> r.counter, hits |-> r.hits, ok |-> TRUE])

\* HeteroGraph.character_relationships: ok = FALSE is an exception leaving the method
character_relationships(g, counter, character1, character2, first, second) ==
    With(get_connected_edges(g, character1, character2),
         LAMBDA connected :
            IF ~connected.ok THEN [g |-> g, counter |-> counter, hits |-> {}, ok |-> FALSE]
            ELSE IF Len(connected.edges) < 3
            THEN [g |-> connected.g, counter |-> counter, hits |-> {}, ok |-> TRUE]
            ELSE UseRelationshipsResponse(
                     [g |-> connected.g, counter |-> counter, hits |-> {}, ok |-> TRUE],
                     EnsureBrackets(character1), EnsureBrackets(character2),
                     WithRetry(first, second).response))

\* for i in range(len(characters)-1): for j in range(i+1, len(characters)):
\*     try: graph.character_relationships(characters[i], characters[j])
RECURSIVE RelationshipsFrom(_, _, _, _, _, _)
RelationshipsFrom(st, selected, i, j, first, second) ==
    IF i > Len(selected) - 1 THEN st
    ELSE IF j > Len(selected) THEN RelationshipsFrom(st, selected, i + 1, i + 2, first, second)
    ELSE With(character_relationships(st.g, st.counter, selected[i], selected[j],
                                      first, second),
              LAMBDA r : RelationshipsFrom([g |-> r.g, counter |-> r.counter,
                                            hits |-> st.hits \cup r.hits],
                                           selected, i, j + 1, first, second))

\* a text line of characters_behavior
BehaviorLine == [equivalence |-> FALSE, parts |-> << <<"waves", 0>> >>]

\* "Equivalence: <character_1>, <Alice>"
EquivalenceLine ==
    [equivalence |-> TRUE, parts |-> << <<"character_1", 1>>, <<"Alice", 1>> >>]

\* the object the multimodal model is asked for
EpisodicDict(behaviors, new_character_appearance, conversation, scene) ==
    [type |-> "dict", behaviors |-> behaviors,
     character_appearance |-> new_character_appearance,
     conversation |-> conversation, scene |-> scene]

\* outcomes of an attempt of the episodic-memory call: get_response raised
\* twice, the answer is not a JSON object, or one of five objects: people
\* talk, nothing happens, somebody acts, somebody is recognised and the
\* speaker of a line is null, the robot is described
EpisodicOutcomes ==
    { [type |-> "raise"], [type |-> "invalid"],
      EpisodicDict(<<>>, (<<"character_1", 1>> :> "tall"),
                   << <<<<"Alice", 1>>, "hi">> >>, "kitchen"),
      EpisodicDict(<<>>, <<>>, <<>>, NoneStr),
      EpisodicDict(<<BehaviorLine>>, <<>>, <<>>, "kitchen"),
      EpisodicDict(<<EquivalenceLine>>, <<>>, << <<NoneName, "hi">> >>, "kitchen"),
      EpisodicDict(<<>>, (ROBOT :> "tall"), <<>>, "kitchen") }

\* outcomes of the second attempt
EpisodicRetryOutcomes ==
    { [type |-> "raise"], [type |-> "invalid"], EpisodicDict(<<>>, <<>>, <<>>, NoneStr) }

\* outcomes of one call of the text model for the triples of a clip
TripleResponses ==
    { LLMRaises,
      generate_text_response(<< << <<"character_1", 1, 0>>, "waves", <<"null", 0, 0>> >> >>) }

\* answers of the text model to character_relationships
RelationshipResponses ==
    { LLMRaises, generate_text_response(Unparseable),
      generate_text_response(<< << <<"Alice", 1>>, "friend", <<"robot", 1>>, 70 >> >>) }

\* the graph, the appearance dict and the conversation store after a step
SetDriverState(r) ==
    /\ SetGraph(r.g)
    /\ id_counter' = r.counter
    /\ asserted' = RecordAsserted(asserted, r.hits)
    /\ character_appearance' = r.app
    /\ conversations' = r.store.conversations
    /\ current_conversation_id' = r.store.current
    /\ conversation_id_counter' = r.store.counter

\* a step of the driver that leaves everything but the graph alone
SetDriverGraph(g, counter, hits) ==
    /\ SetGraph(g)
    /\ id_counter' = counter
    /\ asserted' = RecordAsserted(asserted, hits)
    /\ UNCHANGED <<character_appearance, conversationVars>>

\* the position after a phase
PhaseDone(d, phase, pc) == [d EXCEPT !.pc = pc, !.phases = Append(d.phases, phase)]

\* process_full_video(frames_dir): lines 27-47, on a new graph
StartDriver ==
    /\ driver.pc = "idle"
    /\ \E folders \in SUBSET ClipFolders :
          driver' = [NoDriver EXCEPT !.pc = "clips", !.image_folders = image_folders(folders)]
    /\ last' = [NoLast EXCEPT !.op = "process_full_video"]
    /\ UNCHANGED <<graphVars, conversationVars, embedding_requests, token_usage, ops>>

\* one pass of the loop over image_folders: lines 49-173
ProcessClip ==
    /\ driver.pc = "clips"
    /\ driver.next <= Len(driver.image_folders)
    /\ \E first \in EpisodicOutcomes, second \in EpisodicRetryOutcomes,
          summary_first \in SummaryResponses, summary_second \in SummaryResponses,
          triples_first \in TripleResponses, triples_second \in TripleResponses :
         \E clip_id \in {IntOf(driver.image_folders[driver.next])} :
           \E r \in {process_clip(ClipStart, clip_id, EpisodicNet(first, second),
                                  [summary_first |-> summary_first,
                                   summary_second |-> summary_second,
                                   triples_first |-> triples_first,
                                   triples_second |-> triples_second])} :
              /\ SetDriverState(r)
              /\ driver' = NextFolder(driver, clip_id, r)
              /\ last' = [NoLast EXCEPT !.op = "process_clip", !.ok = ~r.raised]
    /\ UNCHANGED <<embedding_requests, token_usage, ops>>

\* the summary of the conversation still open after the loop: lines 175-191
FinalSummary ==
    /\ driver.pc = "clips"
    /\ driver.next > Len(driver.image_folders)
    /\ \E first \in SummaryResponses, second \in SummaryResponses :
         \E r \in {CloseEnded(ClipStart, <<>>, first, second)} :
            /\ SetDriverState(r)
            /\ driver' = [PhaseDone(driver, "final_summary", "appearances")
                             EXCEPT !.summarized = r.summarized]
            /\ last' = [NoLast EXCEPT !.op = "final_summary"]
    /\ UNCHANGED <<embedding_requests, token_usage, ops>>

\* graph.insert_character_appearances(character_appearance): lines 193-199
AppearancesPhase ==
    /\ driver.pc = "appearances"
    /\ IF DOMAIN character_appearance # {}
       THEN \E r \in {insert_character_appearances(Graph, id_counter, character_appearance)} :
               SetDriverGraph(r.g, r.counter, r.hits)
       ELSE UNCHANGED <<graphVars, conversationVars>>
    /\ driver' = PhaseDone(driver, "appearances", "embeddings")
    /\ last' = [NoLast EXCEPT !.op = "appearances"]
    /\ UNCHANGED <<embedding_requests, token_usage, ops>>

\* node and edge embeddings: lines 201-206
EmbeddingsPhase ==
    /\ driver.pc = "embeddings"
    /\ SetDriverGraph(InsertEmbeddings(Graph), id_counter, {})
    /\ driver' = PhaseDone(driver, "embeddings", "attributes")
    /\ last' = [NoLast EXCEPT !.op = "embeddings",
                              !.ok = node_embedding_insertion(Graph).ok]
    /\ UNCHANGED <<embedding_requests, token_usage, ops>>

\* character attributes: lines 214-226; the text model answers every call of
\* the phase alike
AttributesPhase ==
    /\ driver.pc = "attributes"
    /\ \E response \in AttributeResponses :
         \E d \in {get_node_degrees(Graph)} :
           \E r \in {AttributesFrom([g |-> d.g, counter |-> id_counter, hits |-> {}],
                                    SelectedCharacters(d.g, d.degrees), 1, response)} :
              /\ SetDriverGraph(r.g, r.counter, r.hits)
              /\ driver' = [PhaseDone(driver, "attributes", "relationships")
                               EXCEPT !.characters = SelectedCharacters(d.g, d.degrees)]
    /\ last' = [NoLast EXCEPT !.op = "attributes"]
    /\ UNCHANGED <<embedding_requests, token_usage, ops>>

\* character relationships: lines 229-241
RelationshipsPhase ==
    /\ driver.pc = "relationships"
    /\ \E first \in RelationshipResponses, second \in RelationshipResponses :
         \E r \in {RelationshipsFrom([g |-> Graph, counter |-> id_counter, hits |-> {}],
                                     driver.characters, 1, 2, first, second)} :
            SetDriverGraph(r.g, r.counter, r.hits)
    /\ driver' = PhaseDone(driver, "relationships", "save")
    /\ last' = [NoLast EXCEPT !.op = "relationships"]
    /\ UNCHANGED <<embedding_requests, token_usage, ops>>

\* pickle.dump(graph, f); json.dump(episodic_memory, f); return: lines 243-256
Save ==
    /\ driver.pc = "save"
    /\ driver' = PhaseDone(driver, "save", "saved")
    /\ last' = [NoLast EXCEPT !.op = "save"]
    /\ UNCHANGED <<graphVars, conversationVars, embedding_requests, token_usage, ops>>

NextDriver ==
    \/ StartDriver
    \/ ProcessClip
    \/ FinalSummary
    \/ AppearancesPhase
    \/ EmbeddingsPhase
    \/ AttributesPhase
    \/ RelationshipsPhase
    \/ Save

\* the driver is one sequential Python function: it takes its next step
\* whenever it has one, every call into a model returning or raising
SpecDriver == Init /\ [][NextDriver]_vars /\ WF_vars(NextDriver)

----------------------------------------------------------------------------
\* C20

\* the clip ids of the folders, in ascending order
ClipIdsOf(folders) == [k \in 1..Len(folders) |-> IntOf(folders[k])]

\* s is strictly ascending
Ascending(s) == \A i, j \in 1..Len(s) : i < j => s[i] < s[j]

\* the run attempted every folder in ascending clip-id order, went through
\* the phases after the loop and saved
RunComplete ==
    /\ driver.pc = "saved"
    /\ driver.attempted = ClipIdsOf(driver.image_folders)
    /\ Ascending(driver.attempted)
    /\ driver.phases = <<"final_summary", "appearances", "embeddings", "attributes",
                         "relationships", "save">>

\* C20: whatever fails inside the processing of a clip, every clip folder is
\* attempted, in ascending clip-id order, and the run goes on through the
\* final summary, the appearances, the embeddings and the synthesis to the save
IngestionNeverAborts == <>RunComplete

\* C20, witness: a run over three folders in which clips failed, one of them
\* before the last, was saved with all three attempted
SavedAfterFailures ==
    /\ RunComplete
    /\ driver.attempted = <<1, 2, 10>>
    /\ {1, 2} \subseteq driver.failed
    /\ 10 \in driver.episodic_memory

----------------------------------------------------------------------------
\* Edge identifiers, under Spec

\* the ids of a list of an adjacency list are in ascending order
AscendingIds(ids) == \A i, j \in 1..Len(ids) : i < j => ids[i] < ids[j]

----------------------------------------------------------------------------
\* Appearance-based merge, under SpecMerge: insert_triples on one triple at a
\* time, on the graphs and the appearance dicts earlier clips leave

MaxMergeCalls == 3

\* appearance entries of one clip: two generic characters and a named one
MergeAppearances ==
    { (<<"character_1", 1>> :> "tall, dark hair"),
      (<<"character_2", 1>> :> "tall, dark"),
      (<<"Alice", 1>> :> "tall"),
      (<<"Alice", 1>> :> "short") }

\* the triples of a clip, one per call
MergeTriples ==
    { << <<"character_1", 1, 0>>, "waves", NoneRaw >>,
      << <<"character_2", 1, 1>>, "greets", <<"character_1", 1, 0>> >>,
      << <<"Alice", 1, 0>>, "waves", NoneRaw >>,
      << <<"robot", 1, 0>>, "greets", <<"Alice", 1, 0>> >>,
      << <<"Alice", 1, 0>>, "greets", <<"character_1", 1, 0>> >>,
      << <<"Alice", 1, 0>>, "", NoneRaw >> }

\* process_full_video: character_appearance.update(new_character_appearance)
UpdateMergeAppearance ==
    \E new \in MergeAppearances :
        /\ character_appearance' = new @@ character_appearance
        /\ last' = [NoLast EXCEPT !.op = "update_appearance"]
        /\ UNCHANGED <<characters, objects, edges, adjacency_list_out, adjacency_list_in,
                       id_counter, asserted>>

\* insert_triples([triple], clip_id, scene), the provider failing on `down`
InsertMention ==
    \E triple \in MergeTriples, down \in DownSets :
        \E r \in {insert_triples(Graph, character_appearance, id_counter, <<triple>>,
                                 1, "kitchen", down, 0)} :
           /\ SetGraph(r.g)
           /\ id_counter' = r.counter
           /\ character_appearance' = r.app
           /\ last' = [NoLast EXCEPT !.op = "insert_triples", !.ok = ~r.raised,
                                     !.args = [down |-> down], !.triples = <<triple>>]
           /\ UNCHANGED asserted

NextMerge ==
    \/ (GraphOp(UpdateMergeAppearance) /\ Unrecorded /\ UNCHANGED ops)
    \/ Step(InsertMention, MaxMergeCalls)

SpecMerge == Init /\ [][NextMerge]_vars

\* the character names a triple mentions
Mentions(triple) ==
    {ParseName(triple[i]) : i \in {k \in {1, 3} : ~TargetIsNull(triple[k]) /\ ParseIsChar(triple[k])}}

\* the generic characters of the graph whose appearance is within the
\* threshold of the appearance of X
GenericMatches(X) ==
    IF X \notin DOMAIN character_appearance THEN {}
    ELSE {G \in SeqToSet(characters) :
            /\ MatchesCharacterPattern(G)
            /\ G # ROBOT
            /\ G \in DOMAIN character_appearance
            /\ CosinePct(character_appearance[X], character_appearance[G]) >= SimilarityThreshold}

\* the matches no other match is more similar than
BestMatches(X) ==
    {G \in GenericMatches(X) :
        \A H \in GenericMatches(X) :
            CosinePct(character_appearance[X], character_appearance[H])
                <= CosinePct(character_appearance[X], character_appearance[G])}

\* the name an edge holds for `name` once G is renamed to X
Renamed(name, G, X) == IF name = G THEN X ELSE name

\* the step renamed G to X
MergedInto(G, X) ==
    /\ G \notin SeqToSet(characters')
    /\ X \in SeqToSet(characters')
    /\ SeqToSet(characters') = (SeqToSet(characters) \ {G}) \cup {X}
    /\ Len(characters') = Len(characters)
    /\ character_appearance' = DictDel(character_appearance, G)
    /\ \A id \in DOMAIN edges :
          /\ id \in DOMAIN edges'
          /\ edges'[id].source = Renamed(edges[id].source, G, X)
          /\ edges'[id].target = Renamed(edges[id].target, G, X)
    /\ \A id \in DOMAIN edges' : G \notin {edges'[id].source, edges'[id].target}

\* the step created X and renamed nobody
CreatedNew(X) ==
    /\ characters' = Append(characters, X)
    /\ character_appearance' = character_appearance
    /\ \A id \in DOMAIN edges :
          /\ id \in DOMAIN edges'
          /\ edges'[id].source = edges[id].source
          /\ edges'[id].target = edges[id].target

\* an insert_triples call on one valid triple whose only character absent
\* from the graph is X, the provider answering
MentionsAbsent(X) ==
    /\ last'.op = "insert_triples"
    /\ last'.args.down = {}
    /\ ~SkippedEarly(last'.triples[1])
    /\ Mentions(last'.triples[1]) \ SeqToSet(characters) = {X}

----------------------------------------------------------------------------
\* Conversation lifecycle, under SpecDriver

\* how often extract_conversation_summary was called with conversation id
TimesSummarized(d, id) == Cardinality({i \in 1..Len(d.summarized) : d.summarized[i] = id})

\* the conversation the next dialogue clip would continue
OpenConversation(d, current) ==
    IF d.pc = "clips" /\ d.previous_conversation THEN {current} ELSE {}

\* C24: extract_conversation_summary is called exactly once for every
\* conversation the driver created: a conversation is not summarised while
\* the clips processed since it began all had dialogue, it is summarised
\* once as soon as a clip is processed without dialogue, and once after the
\* last clip if it is still open; a summarised conversation gets no further
\* message, the next dialogue clip starting a new conversation
ConversationLifecycle ==
    [][/\ \A id \in DOMAIN conversations' :
             TimesSummarized(driver', id) =
                IF id \in OpenConversation(driver', current_conversation_id') THEN 0 ELSE 1
       /\ SeqToSet(driver'.summarized) \subseteq DOMAIN conversations'
       /\ \A id \in SeqToSet(driver.summarized) :
             /\ conversations'[id].messages = conversations[id].messages
             /\ conversations'[id].clips = conversations[id].clips
       /\ (current_conversation_id' # current_conversation_id
             /\ current_conversation_id # NoneNum) =>
                current_conversation_id \in SeqToSet(driver.summarized)
      ]_vars

\* C24, witness: the run is over; the first conversation was summarised when
\* a clip without dialogue was processed, the second after the last clip
TwoConversationsSummarized ==
    /\ driver.pc = "saved"
    /\ driver.summarized = <<1, 2>>
    /\ DOMAIN conversations = {1, 2}
    /\ conversations[1].clips = <<1>>
    /\ conversations[2].clips = <<10>>

----------------------------------------------------------------------------
\* Confidence threshold of the synthesizers, under SpecThreshold: the loops
\* that turn a parsed answer of the text model into high-level edges, applied
\* to the graphs add_character and earlier answers leave.  A confidence that
\* is not a number is NoneNum.

MaxThresholdOps == 3

\* parsed attributes_dict.items() of character_attributes
ParsedAttributes ==
    { << <<"kind", 80>>, <<"shy", 40>>, <<"calm", NoneNum>> >>,
      << <<"kind", 49>>, <<"bold", 50>> >> }

\* parsed relationships_list of character_relationships
ParsedRelationships ==
    { << << <<"Alice", 1>>, "friend", <<"robot", 0>>, 70 >>,
         << <<"robot", 1>>, "helper", <<"Alice", 0>>, 49 >> >>,
      << << <<"Alice", 1>>, "friend", <<"robot", 1>>, 50 >>,
         << <<"Alice", 1>>, "rival", <<"robot", 1>>, NoneNum >> >> }

\* parsed character_attributes and characters_relationships of a summary
ParsedSummaries ==
    { [character_attributes |-> << << <<"Alice", 0>>, "kind", 80 >>,
                                   << <<"Bob", 0>>, "shy", 40 >> >>,
       characters_relationships |-> << << <<"Alice", 1>>, "friend", <<"robot", 0>>, 70 >> >>],
      [character_attributes |-> << << <<"Alice", 1>>, "kind", 50 >> >>,
       characters_relationships |-> << << <<"Alice", 1>>, "friend", <<"Bob", 0>>, 49 >>,
                                       << <<"Bob", 1>>, "guest", <<"robot", 1>>, NoneNum >> >>] }

\* the edges the entries of an answer ask for: <<source, content, target, confidence>>
AttributeEntries(character_name, items) ==
    {<<character_name, items[i][1], NoneName, items[i][2]>> : i \in 1..Len(items)}

RelationshipEntries(items) ==
    {<<EnsureBrackets(items[i][1]), items[i][2], EnsureBrackets(items[i][3]), items[i][4]>> :
        i \in 1..Len(items)}

SummaryEntries(parsed) ==
    {<<EnsureBrackets(parsed.character_attributes[i][1]), parsed.character_attributes[i][2],
       NoneName, parsed.character_attributes[i][3]>> :
        i \in 1..Len(parsed.character_attributes)}
    \cup RelationshipEntries(parsed.characters_relationships)

\* the graph after a loop, with the entries the loop was given
LoopDone(op, r, entries) ==
    /\ SetGraph(r.g)
    /\ id_counter' = r.counter
    /\ asserted' = RecordAsserted(asserted, r.hits)
    /\ last' = [NoLast EXCEPT !.op = op, !.args = [entries |-> entries]]
    /\ UNCHANGED character_appearance

\* character_attributes, lines 759-776
AttributeLoop ==
    \E i \in 1..Len(characters), items \in ParsedAttributes :
        LoopDone("attribute_loop",
                 AttributeEdges([g |-> Graph, counter |-> id_counter, hits |-> {}],
                                characters[i], items, 1),
                 AttributeEntries(characters[i], items))

\* character_relationships, lines 849-884
RelationshipLoop ==
    \E i, j \in 1..Len(characters), items \in ParsedRelationships :
        /\ i # j
        /\ LoopDone("relationship_loop",
                    RelationEdges([g |-> Graph, counter |-> id_counter, hits |-> {}],
                                  characters[i], characters[j], items, 1),
                    RelationshipEntries(items))

\* extract_conversation_summary, lines 957-1034
SummaryLoops ==
    \E parsed \in ParsedSummaries :
        LoopDone("summary_loops",
                 SummaryRelationshipEdges(
                     SummaryAttributeEdges([g |-> Graph, counter |-> id_counter, hits |-> {}],
                                           parsed.character_attributes, 1),
                     parsed.characters_relationships, 1),
                 SummaryEntries(parsed))

NextThreshold ==
    \/ Step(AddCharacter, MaxThresholdOps)
    \/ Step(AttributeLoop, MaxThresholdOps)
    \/ Step(RelationshipLoop, MaxThresholdOps)
    \/ Step(SummaryLoops, MaxThresholdOps)

SpecThreshold == Init /\ [][NextThreshold]_vars

SynthesizerLoops == {"attribute_loop", "relationship_loop", "summary_loops"}

\* the entries with a numeric confidence of at least 50
Confident(entries) == {e \in entries : e[4] # NoneNum /\ e[4] >= 50}

\* the entry an edge stands for
EntryOf(edge) == <<edge.source, edge.content, edge.target, edge.confidence>>

\* C25: a synthesizer loop creates or changes an edge only for an entry with
\* a numeric confidence of at least 50, and creates a character only if such
\* an entry names it: every edge a loop created or changed has clip_id 0, no
\* scene and the confidence of such an entry
ThresholdRespected ==
    [][last'.op \in SynthesizerLoops =>
          /\ \A id \in DOMAIN edges' :
                (id \notin DOMAIN edges \/ edges'[id] # edges[id]) =>
                   /\ edges'[id].clip_id = 0
                   /\ edges'[id].scene = NoneStr
                   /\ edges'[id].confidence >= 50
                   /\ EntryOf(edges'[id]) \in Confident(last'.args.entries)
          /\ \A id \in DOMAIN edges : id \in DOMAIN edges'
          /\ \A c \in SeqToSet(characters') \ SeqToSet(characters) :
                \E e \in Confident(last'.args.entries) : c \in {e[1], e[3]}
      ]_vars

\* C25, witness: the summary loops were given <Alice> at 50 and <Bob> only
\* below 50; <Alice> has the edge, <Bob> is no character
BobBelowThreshold ==
    /\ last.op = "summary_loops"
    /\ <<<<"Bob", 1>>, "guest", <<"robot", 1>>, NoneNum>> \in last.args.entries
    /\ <<"Bob", 1>> \notin SeqToSet(characters)
    /\ <<"Alice", 1>> \in SeqToSet(characters)
    /\ \E id \in DOMAIN edges : EntryOf(edges[id]) = <<<<"Alice", 1>>, "kind", NoneName, 50>>

----------------------------------------------------------------------------
\* Embeddings at the save step, under SpecDriver (the embedding provider
\* answers every request of a run)

\* C26: when process_full_video has saved the graph, every edge of the graph
\* has a content embedding
EdgesEmbeddedAtSave ==
    driver.pc = "saved" => \A id \in DOMAIN edges : edges[id].embedding # NoneEmb

----------------------------------------------------------------------------
\* Snapshots, under SpecReload: a graph is saved, loaded in a new process and
\* extended there

MaxReloadOps == 4

\* pickle.dump(graph, f) in one process and pickle.load(f) in a new one: the
\* attributes of the graph are restored; the class attributes
\* Edge._id_counter and Conversation._id_counter are not part of the pickle
\* and start again from 0
Reload ==
    /\ id_counter' = 0
    /\ conversation_id_counter' = 0
    /\ last' = [NoLast EXCEPT !.op = "reload"]
    /\ UNCHANGED <<characters, objects, edges, adjacency_list_out, adjacency_list_in,
                   character_appearance, asserted, conversations, current_conversation_id,
                   embedding_requests, driver, token_usage>>
    /\ ops < MaxReloadOps
    /\ ops' = ops + 1

NextReload ==
    \/ Step(AddCharacter, MaxReloadOps)
    \/ Step(AddEdge, MaxReloadOps)
    \/ Reload

SpecReload == Init /\ [][NextReload]_vars

\* C27: a successful add_edge of a newly created edge increases the number
\* of stored edges by exactly one and leaves every edge stored before in the
\* edge table under its own id, also on a graph loaded from a snapshot
EdgeIdsNeverReused ==
    [][(last'.op = "add_edge" /\ last'.ok) =>
          /\ Cardinality(DOMAIN edges') = Cardinality(DOMAIN edges) + 1
          /\ \A id \in DOMAIN edges : id \in DOMAIN edges' /\ edges'[id] = edges[id]
      ]_vars

----------------------------------------------------------------------------
\* The character <robot>, under SpecRobot: every call that adds, renames or
\* merges characters, with the robot among the arguments

MaxRobotOps == 3

\* rename_character with the robot as the old and as the new name
RobotRenameOldArgs == {<<"robot", 0>>, <<"robot", 1>>, <<"character_1", 1>>}
RobotRenameNewArgs == {<<"robot", 0>>, <<"Alice", 1>>}

RenameRobot ==
    \E old_arg \in RobotRenameOldArgs, new_arg \in RobotRenameNewArgs :
        \E r \in {rename_character(Graph, old_arg, new_arg)} :
           /\ SetGraph(r.g)
           /\ last' = [NoLast EXCEPT !.op = "rename_character", !.ok = r.ok,
                                     !.old = EnsureBrackets(old_arg),
                                     !.new = Wrap(StripBrackets(new_arg))]
           /\ UNCHANGED <<id_counter, character_appearance, asserted>>

\* appearance entries of one clip, the robot described like <Alice>
UpdateRobotAppearance ==
    \E new \in {(ROBOT :> "tall") @@ (<<"Alice", 1>> :> "tall"),
                (<<"character_1", 1>> :> "tall, dark hair")} :
        /\ character_appearance' = new @@ character_appearance
        /\ last' = [NoLast EXCEPT !.op = "update_appearance"]
        /\ UNCHANGED <<characters, objects, edges, adjacency_list_out, adjacency_list_in,
                       id_counter, asserted>>

NextRobot ==
    \/ Step(AddCharacter, MaxRobotOps)
    \/ Step(RenameRobot, MaxRobotOps)
    \/ (GraphOp(UpdateRobotAppearance) /\ Unrecorded /\ UNCHANGED ops)
    \/ Step(InsertMention, MaxRobotOps)
    \/ Step(SummaryLoops, MaxRobotOps)
    \/ Step(CharacterAttributes, MaxRobotOps)

SpecRobot == Init /\ [][NextRobot]_vars

\* C28: <robot> is a character in every state, once and under its own name
RobotAlwaysPresent ==
    Cardinality({i \in 1..Len(characters) : characters[i] = ROBOT}) = 1

\* C28, witness: rename_character was asked to rename <robot> and refused,
\* on a graph where <Alice>, described like the robot, took the place of
\* <character_1>
RobotRenameRefused ==
    /\ last.op = "rename_character"
    /\ last.old = ROBOT
    /\ ~last.ok
    /\ ROBOT \in DOMAIN character_appearance
    /\ <<"Alice", 1>> \in SeqToSet(characters)
    /\ <<"character_1", 1>> \notin SeqToSet(characters)
    /\ <<"character_1", 1>> \notin DOMAIN character_appearance
    /\ edges # <<>>

----------------------------------------------------------------------------
\* rename_character on a graph that holds conversations, under SpecRenameFrame

MaxFrameOps == 4

\* rename_character that also renames the speakers of the conversations
RenameWithSpeakers(g, st, old_arg, new_arg) ==
    With(rename_character(g, old_arg, new_arg),
         LAMBDA r :
           [g |-> r.g, ok |-> r.ok,
            st |-> IF ~r.ok THEN st
                   ELSE [st EXCEPT !.conversations =
                            [id \in DOMAIN @ |->
                                [@[id] EXCEPT !.speakers =
                                    {IF sp = EnsureBrackets(old_arg)
                                     THEN Wrap(StripBrackets(new_arg)) ELSE sp : sp \in @}]]]])

\* HeteroGraph.rename_character on the whole object: g holds the node and edge
\* stores, st the conversations; no statement of the method reads or writes
\* self.conversations or self.current_conversation_id
rename_character_self(g, st, old_arg, new_arg) ==
    With(rename_character(g, old_arg, new_arg),
         LAMBDA r : [g |-> r.g, ok |-> r.ok, st |-> st])

\* message lists of a clip in which <character_1> speaks
FrameMessageLists ==
    { << <<<<"character_1", 1>>, "hi">>, <<<<"robot", 1>>, "hello">> >>,
      << <<<<"Alice", 1>>, "bye">> >> }

UpdateFrameConversation ==
    \E messages \in FrameMessageLists, previous_conversation \in BOOLEAN :
        \E r \in {update_conversation(Store, 1, messages, previous_conversation, {})} :
           /\ conversations' = r.st.conversations
           /\ current_conversation_id' = r.st.current
           /\ conversation_id_counter' = r.st.counter
           /\ last' = [NoLast EXCEPT !.op = "update_conversation", !.ret = r.ret]
           /\ UNCHANGED graphVars

RenameSelf ==
    \E old_arg \in RenameOldArgs, new_arg \in RenameNewArgs :
        \E r \in {rename_character_self(Graph, Store, old_arg, new_arg)} :
           /\ SetGraph(r.g)
           /\ conversations' = r.st.conversations
           /\ current_conversation_id' = r.st.current
           /\ conversation_id_counter' = r.st.counter
           /\ last' = [NoLast EXCEPT !.op = "rename_character", !.ok = r.ok,
                                     !.old = EnsureBrackets(old_arg),
                                     !.new = Wrap(StripBrackets(new_arg))]
           /\ UNCHANGED <<id_counter, character_appearance, asserted>>

\* one operation out of the budget of SpecRenameFrame
FrameStep(A) == ops < MaxFrameOps /\ A /\ Unrecorded /\ ops' = ops + 1

NextRenameFrame ==
    \/ FrameStep(GraphOp(AddCharacter))
    \/ FrameStep(GraphOp(InsertClipTriples))
    \/ FrameStep(UpdateFrameConversation)
    \/ FrameStep(RenameSelf)

SpecRenameFrame == Init /\ [][NextRenameFrame]_vars

\* an adjacency list after the key old was moved to new
KeysMoved(adj_after, adj, old, new) ==
    /\ DOMAIN adj_after = {Renamed(node, old, new) : node \in DOMAIN adj}
    /\ \A node \in DOMAIN adj : adj_after[Renamed(node, old, new)] = adj[node]

\* C29: a successful rename_character(old, new) changes the character table,
\* the endpoints of the edges of old and the adjacency keys, and nothing
\* else: objects, the other fields of the edges and every conversation are
\* as before, so the messages and speaker sets that hold old still hold it
RenameFrame ==
    [][(last'.op = "rename_character" /\ last'.ok) =>
          /\ conversations' = conversations
          /\ current_conversation_id' = current_conversation_id
          /\ \A id \in DOMAIN conversations :
                last'.old \in conversations[id].speakers =>
                   /\ last'.old \in conversations'[id].speakers
                   /\ SpeakersOf(conversations'[id].messages) = conversations'[id].speakers
          /\ objects' = objects
          /\ SeqToSet(characters') = (SeqToSet(characters) \ {last'.old}) \cup {last'.new}
          /\ DOMAIN edges' = DOMAIN edges
          /\ \A id \in DOMAIN edges :
                edges'[id] = [edges[id] EXCEPT
                                 !.source = Renamed(@, last'.old, last'.new),
                                 !.target = Renamed(@, last'.old, last'.new)]
          /\ KeysMoved(adjacency_list_out', adjacency_list_out, last'.old, last'.new)
          /\ KeysMoved(adjacency_list_in', adjacency_list_in, last'.old, last'.new)
      ]_vars

\* C29, witness: <character_1> was renamed to <Alice>; its edge is an edge of
\* <Alice>, and the conversation it spoke in still names <character_1>
SpeakerKeepsOldName ==
    /\ last.op = "rename_character"
    /\ last.ok
    /\ last.old = <<"character_1", 1>>
    /\ last.new = <<"Alice", 1>>
    /\ \E id \in DOMAIN edges : edges[id].source = <<"Alice", 1>>
    /\ \E id \in DOMAIN conversations :
          /\ <<"character_1", 1>> \in conversations[id].speakers
          /\ \E i \in 1..Len(conversations[id].messages) :
                conversations[id].messages[i][1] = <<"character_1", 1>>

----------------------------------------------------------------------------
\* reason._update_token_usage in concurrent processes, under SpecUsage

\* token totals a run may report: get_token_counter()
TokenTotals == {10, 20}

\* flock without a lock: the call returns at once
FlockReturnsAtOnce(u, p) == TRUE

\* fcntl.flock(lock_file, fcntl.LOCK_EX) returns for run p: no other open
\* file description holds the lock
FlockGranted(u, p) == u.lock = 0

\* data = {"memorization": {}, "reasoning": {}}, replaced by json.load(f) if
\* the file exists and is JSON; then data["reasoning"][video_name] = total_tokens
LoadedData(u, p) ==
    DictSet(IF u.file.exists /\ u.file.valid THEN u.file.reasoning ELSE <<>>,
            p, u.total_tokens[p])

\* the graph, the conversations and the ingestion driver take no part
UsageStep(u) ==
    /\ token_usage' = u
    /\ last' = [NoLast EXCEPT !.op = "update_token_usage"]
    /\ UNCHANGED <<graphVars, conversationVars, embedding_requests, driver, ops>>

\* reason() calls _update_token_usage(video_name, get_token_counter()):
\* open(lock_path, "w")
OpenLockFile(p) ==
    /\ token_usage.pc[p] = "running"
    /\ \E total_tokens \in TokenTotals :
          UsageStep([token_usage EXCEPT !.pc[p] = "flock",
                                        !.total_tokens[p] = total_tokens])

\* fcntl.flock(lock_file, fcntl.LOCK_EX)
Flock(p) ==
    /\ token_usage.pc[p] = "flock"
    /\ FlockGranted(token_usage, p)
    /\ UsageStep([token_usage EXCEPT !.pc[p] = "load", !.lock = p])

\* lines 51-58: the file is read and the entry of the run is set
LoadUsage(p) ==
    /\ token_usage.pc[p] = "load"
    /\ UsageStep([token_usage EXCEPT !.pc[p] = "open", !.data[p] = LoadedData(token_usage, p)])

\* open(usage_path, "w"): the file is created or truncated
OpenUsage(p) ==
    /\ token_usage.pc[p] = "open"
    /\ UsageStep([token_usage EXCEPT !.pc[p] = "dump", !.file = Truncated])

\* json.dump(data, f, indent=2) and the end of the with block
DumpUsage(p) ==
    /\ token_usage.pc[p] = "dump"
    /\ UsageStep([token_usage EXCEPT !.pc[p] = "unlock",
                                     !.file = UsageFile(token_usage.data[p])])

\* fcntl.flock(lock_file, fcntl.LOCK_UN) and the return
Unlock(p) ==
    /\ token_usage.pc[p] = "unlock"
    /\ UsageStep([token_usage EXCEPT !.pc[p] = "done",
                                     !.lock = IF @ = p THEN 0 ELSE @])

NextUsage ==
    \/ \E p \in Runs : OpenLockFile(p)
    \/ \E p \in Runs : Flock(p)
    \/ \E p \in Runs : LoadUsage(p)
    \/ \E p \in Runs : OpenUsage(p)
    \/ \E p \in Runs : DumpUsage(p)
    \/ \E p \in Runs : Unlock(p)

SpecUsage == Init /\ [][NextUsage]_vars

\* the runs between flock(LOCK_EX) and flock(LOCK_UN)
InCriticalSection == {p \in Runs : token_usage.pc[p] \in {"load", "open", "dump", "unlock"}}

\* C30: at most one run is between its flock(LOCK_EX) and its
\* flock(LOCK_UN); whenever no run is writing the file, the file holds the
\* entry of every run that has returned, so once all runs have returned it
\* holds the entry of every run
UsageUpdatesExclusive ==
    /\ Cardinality(InCriticalSection) <= 1
    /\ \A p \in Runs :
          (token_usage.pc[p] = "done" /\ token_usage.file.valid) =>
             /\ p \in DOMAIN token_usage.file.reasoning
             /\ token_usage.file.reasoning[p] = token_usage.total_tokens[p]
    /\ (\A p \in Runs : token_usage.pc[p] = "done") => token_usage.file.valid

\* C30, witness: every run has returned, and the file holds an entry for
\* every run, with different totals
AllRunsRecorded ==
    /\ \A p \in Runs : token_usage.pc[p] = "done"
    /\ token_usage.file.valid
    /\ DOMAIN token_usage.file.reasoning = Runs
    /\ token_usage.file.reasoning[1] # token_usage.file.reasoning[2]

====
